---- MODULE Spec2Model ----
(***************************************************************************)
(* Model of the `sync` command of the Learning Genie sync CLI:             *)
(* per-enrollment watermark read, backward cursor pagination with dedup    *)
(* (fetchNotesRange), the soft per-run asset cap (applySoftAssetLimit),    *)
(* the bounded download pool (runDownloader) and the rewrite of the        *)
(* persisted state.                                                        *)
(*                                                                         *)
(* Instants are integers (milliseconds since the epoch).  A raw timestamp  *)
(* string is a record [fmt, wall]: fmt "naive" is 'YYYY-MM-DD HH:MM:SS.mmm'*)
(* with no zone, "zulu" is the same with a trailing Z, "junk" is text no   *)
(* grammar accepts, "blank" is whitespace only, "empty" is the empty       *)
(* string; wall is the wall-clock reading in milliseconds.  An optional    *)
(* value is <<>> (absent) or <<v>>.                                        *)
(* A note or a media entry is a record; a key that is not in its DOMAIN is *)
(* an undefined property.                                                  *)
(***************************************************************************)
EXTENDS Integers, Sequences, FiniteSets, TLC

VARIABLES
    feed,              \* enrollment -> notes held by the vendor, newest first
    tzOffsetHours,     \* UTC offset of the process's local time zone
    lastTimezoneOffsetHours, \* module global set from the x-lg-timezoneoffset header
    stateFile,         \* persisted state: enrollment -> ISO string or absent
    pc,                \* position of the sync action
    maxAssets,         \* --max-assets of the current run (absent or a number)
    syncState,         \* in-memory copy of the persisted state
    stateUpdated,      \* the run's stateUpdated flag
    cur,               \* index of the enrollment being processed
    startDate,         \* effectiveStart of the current enrollment
    deduped,           \* fetchNotesRange: accumulated notes
    seen,              \* fetchNotesRange: identities already accumulated
    beforeCursor,      \* fetchNotesRange: cursor sent with the next request
    pages,             \* fetchNotesRange: pages counted so far
    tryNum,            \* robustGetJSON: attempt number of the current request
    earlyStop,         \* fetchNotesRange left its loop through the limiter's break
    processedItems,    \* items handed to the download stage
    latestTimestampForState, \* watermark candidate of the current enrollment
    tasks,             \* runDownloader: one status per media entry
    truncated,         \* enrollment -> the limiter cut its items in this run
    advanced,          \* enrollment -> instant stored in syncState by this run
    lastWritten,       \* enrollment -> instant of the watermark in the state file
    everCrashed,       \* some run so far ended in an error
    capsUsed,          \* the --max-assets values of the runs so far
    deliveredBefore,   \* enrollment -> assets handed to the download stage by earlier runs
    deliveredNow,      \* enrollment -> assets handed to the download stage by this run
    fetchDone,         \* enrollments whose fetchNotesRange returned in this run
    downloadDone,      \* enrollments whose runDownloader returned in this run
    fatalAt,           \* enrollments whose sync threw in this run
    crashCause,        \* what made the run's promise reject ("none", "feed", "asset")
    lastResponse,      \* robustGetJSON: status of the latest response, its attempt, error text
    feedMode,          \* how the vendor treats before_time ("honest", "stuck")
    limInput,          \* a direct call of applySoftAssetLimit: its arguments
    limOut,            \* the result of that call
    limAgain,          \* the result of calling it again on the same arguments
    call,              \* a direct call of a timestamp or identity function: its arguments
    returned,          \* what that call returned
    disk,              \* runDownloader: the paths that exist in the output directory
    workers            \* runDownloader: per media entry, the task's position and file name

vars == <<feed, tzOffsetHours, lastTimezoneOffsetHours, stateFile, pc, maxAssets,
          syncState, stateUpdated, cur, startDate, deduped, seen, beforeCursor,
          pages, tryNum, earlyStop, processedItems, latestTimestampForState, tasks,
          truncated, advanced, lastWritten, everCrashed, capsUsed,
          deliveredBefore, deliveredNow, fetchDone, downloadDone, fatalAt, crashCause,
          lastResponse, feedMode, limInput, limOut, limAgain, call, returned, disk,
          workers>>

\* the files and the task positions of the download pool
poolVars == <<disk, workers>>

\* the variables of a direct call of applySoftAssetLimit
limVars == <<limInput, limOut, limAgain>>

\* the variables of a direct call of a timestamp or identity function
callVars == <<call, returned>>

----------------------------------------------------------------------------
(* Bounds and program constants *)

MaxTime == 4                \* wall-clock readings of the feeds are 1..MaxTime
MaxCap == 2                 \* --max-assets is absent or 1..MaxCap
DEFAULT_COUNT == 3          \* page size (scaled down)
MAX_SYNC_PAGES == 3         \* page budget (scaled down)
DownloadConcurrency == 2    \* LG_DOWNLOAD_CONCURRENCY
MAX_RETRIES == 4
HourMs == 3600000
MsPerSecond == 1000
MaxErrorText == 200

Null == <<>>
Some(x) == <<x>>
Val(o) == o[1]

Has(item, key) == key \in DOMAIN item

----------------------------------------------------------------------------------
(* Timestamps *)

\* a when it is present, else b
OrElse(a, b) == IF a # Null THEN a ELSE b

\* the first present entry of a sequence of optional values
RECURSIVE FirstSome(_)
FirstSome(opts) ==
    IF opts = <<>> THEN Null
    ELSE IF Head(opts) # Null THEN Head(opts)
    ELSE FirstSome(Tail(opts))

Naive(w) == [fmt |-> "naive", wall |-> w]

\* new Date(cand): a string with no zone marker is read as local time, one
\* that ends in Z as UTC; anything else is an Invalid Date (absent).
JsDateParse(raw, withZ) ==
    IF raw.fmt = "zulu" \/ (raw.fmt = "naive" /\ withZ)
    THEN Some(raw.wall)
    ELSE IF raw.fmt = "naive"
         THEN Some(raw.wall - tzOffsetHours * HourMs)
         ELSE Null

\* /[zZ]|[+-]\d{2}/.test(normalized): a trailing Z matches, and so does the
\* "-MM" of every 'YYYY-MM-DD' date.
HasZoneMarker(raw) == raw.fmt \in {"zulu", "naive"}

\* the value parseTimestamp returns for a parsed date
Parsed(d, raw, treatAsUTC) ==
    IF d = Null THEN Null
    ELSE Some([date |-> Val(d), raw |-> raw, treatAsUTC |-> treatAsUTC])

parseTimestamp(raw, treatAsUTC) ==
    IF raw.fmt \in {"blank", "empty"}
    THEN Null
    ELSE Parsed(JsDateParse(raw, treatAsUTC /\ ~HasZoneMarker(raw)), raw, treatAsUTC)

directCandidates ==
    << <<"create_at", FALSE>>, <<"createAt", FALSE>>, <<"createdAt", FALSE>>,
       <<"from_date", FALSE>>, <<"timestamp", FALSE>>, <<"to_date", FALSE>>,
       <<"update_at", FALSE>>, <<"updatedAt", FALSE>>, <<"create_at_utc", TRUE>>,
       <<"update_at_utc", TRUE>>, <<"createAtUtc", TRUE>>, <<"createdAtUtc", TRUE>>,
       <<"updatedAtUtc", TRUE>>, <<"updateAtUtc", TRUE>> >>

\* the first direct field of item that parses
ExtractDirect(item) ==
    FirstSome([i \in 1..Len(directCandidates) |->
                 IF Has(item, directCandidates[i][1])
                 THEN parseTimestamp(item[directCandidates[i][1]], directCandidates[i][2])
                 ELSE Null])

extractTimestamp(item) ==
    OrElse(ExtractDirect(item),
           IF Has(item, "media")
           THEN FirstSome([i \in 1..Len(item.media) |-> ExtractDirect(item.media[i])])
           ELSE Null)

\* the date of an optional parse result
DateOf(ts) == IF ts = Null THEN Null ELSE Some(Val(ts).date)

utcKeys == <<"createAtUtc", "createdAtUtc", "create_at_utc", "created_at_utc",
             "createAtUTC", "createdAtUTC">>
localKeys == <<"createAt", "createdAt", "create_at", "created_at">>

\* pickFirstDefined([media[key], parent[key]])
pickFirstDefined(media, parent, key) ==
    IF Has(media, key) /\ media[key].fmt # "empty" THEN Some(media[key])
    ELSE IF Has(parent, key) /\ parent[key].fmt # "empty" THEN Some(parent[key])
    ELSE Null

\* a picked value counts when it is a string that is not blank
Hinted(val, hint) ==
    IF val # Null /\ Val(val).fmt # "blank"
    THEN Some([value |-> Val(val), hint |-> hint])
    ELSE Null

ResolveByKeys(media, parent, keys, hint) ==
    FirstSome([i \in 1..Len(keys) |->
                 Hinted(pickFirstDefined(media, parent, keys[i]), hint)])

resolveMediaTimestamp(media, parent) ==
    OrElse(ResolveByKeys(media, parent, utcKeys, "utc"),
           ResolveByKeys(media, parent, localKeys, "local"))

\* parseTimestamp(resolved.value, { treatAsUTC: resolved.hint === "utc" })
ParseResolved(resolved) ==
    IF resolved = Null THEN Null
    ELSE DateOf(parseTimestamp(Val(resolved).value, Val(resolved).hint = "utc"))

resolveAssetTimestamp(media, parent, fallback) ==
    OrElse(ParseResolved(resolveMediaTimestamp(media, parent)),
           OrElse(DateOf(extractTimestamp(media)), fallback))

\* variant of LaterOf that keeps the first date it met
LaterOf_KeepsFirst(latest, d) ==
    IF d = Null THEN latest
    ELSE IF latest = Null THEN d ELSE latest

\* the later of an optional running maximum and an optional date
LaterOf(latest, d) ==
    IF d = Null THEN latest
    ELSE IF latest = Null \/ Val(d) > Val(latest) THEN d ELSE latest

RECURSIVE findLatestTimestamp(_)
findLatestTimestamp(items) ==
    IF items = <<>> THEN Null
    ELSE LaterOf(findLatestTimestamp(SubSeq(items, 1, Len(items) - 1)),
                 DateOf(extractTimestamp(items[Len(items)])))

\* date-fns format(date, "yyyy-MM-dd HH:mm:ss.SSS"): the local wall clock
FormatLocal(date) == date + tzOffsetHours * HourMs

formatForApi(date, treatAsUTC) ==
    IF treatAsUTC
    THEN IF lastTimezoneOffsetHours # Null
         THEN FormatLocal(date + Val(lastTimezoneOffsetHours) * HourMs)
         ELSE date
    ELSE FormatLocal(date)

\* Date.prototype.toISOString and date-fns parseISO on its output
toISOString(date) ==
    [secs |-> date \div MsPerSecond, millis |-> date % MsPerSecond, zone |-> "Z"]

parseISO(iso) ==
    IF iso.zone = "Z" THEN Some(iso.secs * MsPerSecond + iso.millis) ELSE Null

----------------------------------------------------------------------------
(* Soft asset limit *)

MediaOf(item) == IF Has(item, "media") THEN item.media ELSE <<>>

\* the AssetRecords of one note, in media order
ItemRecords(item, itemIndex, parentTimestamp) ==
    [mediaIndex \in 1..Len(MediaOf(item)) |->
        [itemIndex |-> itemIndex,
         mediaIndex |-> mediaIndex,
         timestamp |-> resolveAssetTimestamp(item.media[mediaIndex], item,
                                             parentTimestamp)]]

RECURSIVE AssetRecords(_, _)
AssetRecords(items, upTo) ==
    IF upTo = 0 THEN <<>>
    ELSE AssetRecords(items, upTo - 1)
         \o ItemRecords(items[upTo], upTo, DateOf(extractTimestamp(items[upTo])))

\* variant of RecordBefore that orders by position only
RecordBefore_ByPosition(a, b) ==
    IF a.itemIndex # b.itemIndex THEN a.itemIndex < b.itemIndex
    ELSE a.mediaIndex < b.mediaIndex

\* variant of RecordBefore that breaks ties by asset position before note position
RecordBefore_AssetPositionFirst(a, b) ==
    IF a.timestamp # b.timestamp
    THEN IF a.timestamp = Null THEN FALSE
         ELSE IF b.timestamp = Null THEN TRUE
         ELSE Val(a.timestamp) < Val(b.timestamp)
    ELSE IF a.mediaIndex # b.mediaIndex THEN a.mediaIndex < b.mediaIndex
    ELSE a.itemIndex < b.itemIndex

\* variant of RecordBefore that puts the newest instant first
RecordBefore_NewestFirst(a, b) ==
    IF a.timestamp # b.timestamp
    THEN IF a.timestamp = Null THEN FALSE
         ELSE IF b.timestamp = Null THEN TRUE
         ELSE Val(a.timestamp) > Val(b.timestamp)
    ELSE IF a.itemIndex # b.itemIndex THEN a.itemIndex < b.itemIndex
    ELSE a.mediaIndex < b.mediaIndex

\* the comparator of records.sort: an absent instant is +Infinity
RecordBefore(a, b) ==
    IF a.timestamp # b.timestamp
    THEN IF a.timestamp = Null THEN FALSE
         ELSE IF b.timestamp = Null THEN TRUE
         ELSE Val(a.timestamp) < Val(b.timestamp)
    ELSE IF a.itemIndex # b.itemIndex THEN a.itemIndex < b.itemIndex
    ELSE a.mediaIndex < b.mediaIndex

\* variant of SelectRecords that stops at the cap and leaves the ties out
RECURSIVE SelectRecords_NoTies(_, _, _, _)
SelectRecords_NoTies(records, cap, selectedRecords, boundaryTime) ==
    IF records = <<>> THEN selectedRecords
    ELSE IF Len(selectedRecords) < cap
    THEN SelectRecords_NoTies(Tail(records), cap,
                              Append(selectedRecords, Head(records)),
                              OrElse(Head(records).timestamp, boundaryTime))
    ELSE selectedRecords

\* variant of SelectRecords that stops filling one record short of the cap
RECURSIVE SelectRecords_OneShort(_, _, _, _)
SelectRecords_OneShort(records, cap, selectedRecords, boundaryTime) ==
    IF records = <<>> THEN selectedRecords
    ELSE IF Len(selectedRecords) + 1 < cap
    THEN SelectRecords_OneShort(Tail(records), cap,
                                Append(selectedRecords, Head(records)),
                                OrElse(Head(records).timestamp, boundaryTime))
    ELSE IF boundaryTime # Null /\ Head(records).timestamp = boundaryTime
    THEN SelectRecords_OneShort(Tail(records), cap,
                                Append(selectedRecords, Head(records)), boundaryTime)
    ELSE selectedRecords

\* variant of SelectRecords that fills one record past the cap
RECURSIVE SelectRecords_OneOver(_, _, _, _)
SelectRecords_OneOver(records, cap, selectedRecords, boundaryTime) ==
    IF records = <<>> THEN selectedRecords
    ELSE IF Len(selectedRecords) < cap + 1
    THEN SelectRecords_OneOver(Tail(records), cap,
                               Append(selectedRecords, Head(records)),
                               OrElse(Head(records).timestamp, boundaryTime))
    ELSE IF boundaryTime # Null /\ Head(records).timestamp = boundaryTime
    THEN SelectRecords_OneOver(Tail(records), cap,
                               Append(selectedRecords, Head(records)), boundaryTime)
    ELSE selectedRecords

\* the selection loop: up to cap records, then the ties of the boundary
RECURSIVE SelectRecords(_, _, _, _)
SelectRecords(records, cap, selectedRecords, boundaryTime) ==
    IF records = <<>> THEN selectedRecords
    ELSE IF Len(selectedRecords) < cap
    THEN SelectRecords(Tail(records), cap, Append(selectedRecords, Head(records)),
                       OrElse(Head(records).timestamp, boundaryTime))
    ELSE IF boundaryTime # Null /\ Head(records).timestamp = boundaryTime
    THEN SelectRecords(Tail(records), cap, Append(selectedRecords, Head(records)),
                       boundaryTime)
    ELSE selectedRecords

\* selectedByItem.get(itemIndex)
SelectedSet(selectedRecords, itemIndex) ==
    {selectedRecords[i].mediaIndex :
        i \in {j \in 1..Len(selectedRecords) : selectedRecords[j].itemIndex = itemIndex}}

\* mediaArray.filter((_, idx) => selectedSet.has(idx))
RECURSIVE KeepMedia(_, _, _)
KeepMedia(mediaArray, selectedSet, upTo) ==
    IF upTo = 0 THEN <<>>
    ELSE IF upTo \in selectedSet
    THEN Append(KeepMedia(mediaArray, selectedSet, upTo - 1), mediaArray[upTo])
    ELSE KeepMedia(mediaArray, selectedSet, upTo - 1)

\* variant of FilteredItem that keeps a note whose media were all left out
FilteredItem_KeepsEmptied(originalItem, selectedSet) ==
    IF MediaOf(originalItem) = <<>> THEN <<originalItem>>
    ELSE <<[originalItem EXCEPT
              !.media = KeepMedia(originalItem.media, selectedSet,
                                  Len(originalItem.media))]>>

\* the entry of filteredItems that one original note yields, if any
FilteredItem(originalItem, selectedSet) ==
    IF MediaOf(originalItem) = <<>> THEN <<originalItem>>
    ELSE IF selectedSet = {} THEN <<>>
    ELSE <<[originalItem EXCEPT
              !.media = KeepMedia(originalItem.media, selectedSet,
                                  Len(originalItem.media))]>>

RECURSIVE FilterItems(_, _, _)
FilterItems(items, selectedRecords, upTo) ==
    IF upTo = 0 THEN <<>>
    ELSE FilterItems(items, selectedRecords, upTo - 1)
         \o FilteredItem(items[upTo], SelectedSet(selectedRecords, upTo))

\* the latest instant among the selected records
RECURSIVE LatestRecordTimestamp(_)
LatestRecordTimestamp(selectedRecords) ==
    IF selectedRecords = <<>> THEN Null
    ELSE LaterOf(LatestRecordTimestamp(Tail(selectedRecords)),
                 Head(selectedRecords).timestamp)

\* variant of LimitResult that reports every call that ran the selection as limited
LimitResult_AlwaysLimited(filteredItems, totalAssets, selectedAssets, latestAssetTimestamp, cutoffTimestamp) ==
    [filteredItems |-> filteredItems,
     totalAssets |-> totalAssets,
     selectedAssets |-> selectedAssets,
     limited |-> TRUE,
     latestTimestamp |-> OrElse(latestAssetTimestamp,
                                findLatestTimestamp(filteredItems)),
     cutoffTimestamp |-> cutoffTimestamp]

\* the result of a truncating call
LimitResult(filteredItems, totalAssets, selectedAssets, latestAssetTimestamp, cutoffTimestamp) ==
    [filteredItems |-> filteredItems,
     totalAssets |-> totalAssets,
     selectedAssets |-> selectedAssets,
     limited |-> selectedAssets < totalAssets,
     latestTimestamp |-> OrElse(latestAssetTimestamp,
                                findLatestTimestamp(filteredItems)),
     cutoffTimestamp |-> cutoffTimestamp]

\* reconstruction and result, given the selected records
LimitSelected(items, totalAssets, selectedRecords) ==
    LimitResult(FilterItems(items, selectedRecords, Len(items)), totalAssets,
                Len(selectedRecords), LatestRecordTimestamp(selectedRecords),
                LatestRecordTimestamp(selectedRecords))

\* variant of LimitRecords that reports the cap as the number selected when
\* nothing is cut
LimitRecords_ReportsCap(items, cap, records) ==
    IF Len(records) <= cap
    THEN [filteredItems |-> items,
          totalAssets |-> Len(records),
          selectedAssets |-> cap,
          limited |-> FALSE,
          latestTimestamp |-> findLatestTimestamp(items),
          cutoffTimestamp |-> Null]
    ELSE LimitSelected(items, Len(records),
                       SelectRecords(SortSeq(records, RecordBefore), cap, <<>>, Null))

\* the limiter, given the flattened records
LimitRecords(items, cap, records) ==
    IF Len(records) <= cap
    THEN [filteredItems |-> items,
          totalAssets |-> Len(records),
          selectedAssets |-> Len(records),
          limited |-> FALSE,
          latestTimestamp |-> findLatestTimestamp(items),
          cutoffTimestamp |-> Null]
    ELSE LimitSelected(items, Len(records),
                       SelectRecords(SortSeq(records, RecordBefore), cap, <<>>, Null))

applySoftAssetLimit(items, cap) ==
    LimitRecords(items, cap, AssetRecords(items, Len(items)))

----------------------------------------------------------------------------
(* Download stage inputs *)

\* the descriptor of one media entry, absent without a URL or a raw timestamp
Descriptor(media, timestampInfo) ==
    IF Has(media, "public_url") /\ timestampInfo # Null
    THEN <<[url |-> media.public_url,
            rawTimestamp |-> Val(timestampInfo).value,
            hint |-> Val(timestampInfo).hint]>>
    ELSE <<>>

RECURSIVE ItemEntries(_, _)
ItemEntries(item, upTo) ==
    IF upTo = 0 THEN <<>>
    ELSE ItemEntries(item, upTo - 1)
         \o Descriptor(item.media[upTo], resolveMediaTimestamp(item.media[upTo], item))

RECURSIVE collectMediaEntries(_)
collectMediaEntries(items) ==
    IF items = <<>> THEN <<>>
    ELSE ItemEntries(Head(items), Len(MediaOf(Head(items))))
         \o collectMediaEntries(Tail(items))

----------------------------------------------------------------------------
(* Pagination *)

idKeys == <<"id", "note_id", "noteId", "child_media_id", "childMediaId">>
idTimestampKeys == <<"create_at", "createAt", "createdAt", "timestamp">>

deriveStableId(item) ==
    Val(OrElse(FirstSome([i \in 1..Len(idKeys) |->
                   IF Has(item, idKeys[i]) THEN Some(item[idKeys[i]]) ELSE Null]),
               OrElse(FirstSome([i \in 1..Len(idTimestampKeys) |->
                          IF Has(item, idTimestampKeys[i])
                          THEN Some(ToString(item[idTimestampKeys[i]]))
                          ELSE Null]),
                      Some(ToString(item)))))

\* the running oldest timestamp after one more note of the page
OlderOf(oldest, ts) ==
    IF ts # Null /\ (oldest = Null \/ Val(ts).date < Val(oldest).date)
    THEN Some([date |-> Val(ts).date, treatAsUTC |-> Val(ts).treatAsUTC])
    ELSE oldest

RECURSIVE OldestOf(_)
OldestOf(items) ==
    IF items = <<>> THEN Null
    ELSE OlderOf(OldestOf(SubSeq(items, 1, Len(items) - 1)),
                 extractTimestamp(items[Len(items)]))

\* date-fns addDays in a zone without daylight saving
addDays(date, days) == date + days * 24 * HourMs

\* variant of InRange that keeps a note at the first instant after the end day
InRange_ThroughNextMidnight(ts, start, end) ==
    \/ ts = Null
    \/ /\ start = Null \/ ~(Val(ts).date < Val(start))
       /\ end = Null \/ Val(ts).date <= Val(end) + 24 * HourMs

\* a note is kept when it has no timestamp, or is not before the start and
\* before the day after the end
InRange(ts, start, end) ==
    \/ ts = Null
    \/ /\ start = Null \/ ~(Val(ts).date < Val(start))
       /\ end = Null \/ Val(ts).date < addDays(Val(end), 1)

RECURSIVE KeptOf(_, _, _)
KeptOf(items, start, end) ==
    IF items = <<>> THEN <<>>
    ELSE IF InRange(extractTimestamp(Head(items)), start, end)
    THEN <<Head(items)>> \o KeptOf(Tail(items), start, end)
    ELSE KeptOf(Tail(items), start, end)

\* variant of NextCursor that hands on the oldest instant minus one millisecond
NextCursor_MinusOne(oldest, start) ==
    IF oldest = Null THEN Null
    ELSE IF start # Null /\ ~(Val(oldest).date - 1 > Val(start)) THEN Null
    ELSE Some([date |-> Val(oldest).date - 1, treatAsUTC |-> Val(oldest).treatAsUTC])

\* the cursor for the next page, absent when it would not pass the start
NextCursor(oldest, start) ==
    IF oldest = Null THEN Null
    ELSE IF start # Null /\ ~(Val(oldest).date - 1 > Val(start)) THEN Null
    ELSE oldest

filterByRangeAndFindNext(items, start, end) ==
    [kept |-> KeptOf(items, start, end),
     nextCursor |-> NextCursor(OldestOf(items), start)]

\* variant of Dedup that never records an identity as seen
RECURSIVE Dedup_NeverRemembers(_, _, _)
Dedup_NeverRemembers(kept, acc, ids) ==
    IF kept = <<>> THEN [deduped |-> acc, seen |-> ids]
    ELSE IF deriveStableId(Head(kept)) \in ids
    THEN Dedup_NeverRemembers(Tail(kept), acc, ids)
    ELSE Dedup_NeverRemembers(Tail(kept), Append(acc, Head(kept)), ids)

\* append the notes of kept whose identity was not seen, in order
RECURSIVE Dedup(_, _, _)
Dedup(kept, acc, ids) ==
    IF kept = <<>> THEN [deduped |-> acc, seen |-> ids]
    ELSE IF deriveStableId(Head(kept)) \in ids THEN Dedup(Tail(kept), acc, ids)
    ELSE Dedup(Tail(kept), Append(acc, Head(kept)),
               ids \cup {deriveStableId(Head(kept))})

----------------------------------------------------------------------
(* The account's feeds *)

Enrollments == <<"e1", "e2">>
EnrollmentIds == {Enrollments[i] : i \in 1..Len(Enrollments)}

\* a media entry with a URL and, when own > 0, its own createAtUtc
Media(url, own) ==
    IF own = 0 THEN [public_url |-> url]
    ELSE [public_url |-> url, createAtUtc |-> Naive(own)]

Note(id, wall, media) == [id |-> id, create_at |-> Naive(wall), media |-> media]

\* one note per reading 1..MaxTime with one asset each, newest first, and a
\* second note that shares the reading 2
PlainNotes ==
    [i \in 1..MaxTime |->
        LET t == MaxTime + 1 - i
        IN  Note(<<"n", t>>, t, <<Media(<<"u", t>>, 0)>>)]

TwinNote == Note(<<"twin", 2>>, 2, <<Media(<<"v", 2>>, 0)>>)

\* a note without media
BareNote(t) == Note(<<"bare", t>>, t, <<>>)

\* a note whose two assets carry their own readings, one older than the note
OwnNote(t) == Note(<<"own", t>>, t, <<Media(<<"a", t>>, 1), Media(<<"b", t>>, t)>>)

Prefix(s, n) == SubSeq(s, 1, n)

FeedChoices ==
    {Prefix(PlainNotes, n) : n \in 0..MaxTime}
    \cup {SubSeq(PlainNotes, 1, MaxTime - 1) \o <<TwinNote>>
              \o SubSeq(PlainNotes, MaxTime, MaxTime)}
    \cup {<<OwnNote(MaxTime)>> \o SubSeq(PlainNotes, 2, 3)}
    \cup {<<PlainNotes[1], PlainNotes[2], BareNote(2), BareNote(1)>>}

SecondFeedChoices == {<<>>, <<PlainNotes[1]>>}

AccountFeeds ==
    {[e \in EnrollmentIds |-> IF e = Enrollments[1] THEN f ELSE g] :
        f \in FeedChoices, g \in SecondFeedChoices}

TzOffsets == {-7}
HeaderOffsets == {-7}
Caps == {Null} \cup {Some(c) : c \in 1..MaxCap}
Statuses == {200, 404, 429, 500}
FeedModes == {"honest", "stuck"}

\* the reading the vendor compares the before_time cursor with
ServerTime(note) == note.create_at.wall

\* GET /Notes?before_time=..&count=..: the newest notes strictly before the cursor
\* a vendor that ignores the cursor ("stuck") answers with its newest page again
FeedPage(e, beforeTime, pageSize) ==
    LET older == IF feedMode = "honest"
                 THEN SelectSeq(feed[e], LAMBDA n : ServerTime(n) < beforeTime)
                 ELSE feed[e]
    IN  SubSeq(older, 1, IF Len(older) < pageSize THEN Len(older) ELSE pageSize)

\* local midnight of the day after now, as a wall-clock reading and as an instant
TomorrowWall == MaxTime + 1
initialUpper == TomorrowWall - tzOffsetHours * HourMs

----------------------------------------------------------------------------
(* The sync action *)

\* no enrollment is being processed and this model's bookkeeping is empty
Quiet ==
    /\ tzOffsetHours \in TzOffsets
    /\ lastTimezoneOffsetHours = Null
    /\ maxAssets = Null
    /\ cur = 0
    /\ startDate = Null
    /\ deduped = <<>>
    /\ seen = {}
    /\ beforeCursor = 0
    /\ pages = 0
    /\ tryNum = 0
    /\ earlyStop = FALSE
    /\ processedItems = <<>>
    /\ latestTimestampForState = Null
    /\ tasks = <<>>
    /\ disk = {}
    /\ workers = <<>>
    /\ truncated = [e \in EnrollmentIds |-> FALSE]
    /\ advanced = [e \in EnrollmentIds |-> Null]
    /\ everCrashed = FALSE
    /\ capsUsed = {}
    /\ deliveredBefore = [e \in EnrollmentIds |-> {}]
    /\ deliveredNow = [e \in EnrollmentIds |-> {}]
    /\ fetchDone = {}
    /\ downloadDone = {}
    /\ fatalAt = {}
    /\ crashCause = "none"
    /\ lastResponse = Null

\* nothing has run yet
Idle ==
    /\ Quiet
    /\ stateFile = [e \in EnrollmentIds |-> Null]
    /\ pc = "idle"
    /\ syncState = [e \in EnrollmentIds |-> Null]
    /\ stateUpdated = FALSE
    /\ lastWritten = [e \in EnrollmentIds |-> Null]

Init ==
    /\ feed \in AccountFeeds
    /\ feedMode = "honest"
    /\ Idle
    /\ limInput = Null
    /\ limOut = Null
    /\ limAgain = Null
    /\ call = Null
    /\ returned = Null

\* the locals of one enrollment's iteration, out of scope
ClearLocals ==
    /\ startDate' = Null
    /\ deduped' = <<>>
    /\ seen' = {}
    /\ beforeCursor' = 0
    /\ pages' = 0
    /\ tryNum' = 0
    /\ earlyStop' = FALSE
    /\ processedItems' = <<>>
    /\ latestTimestampForState' = Null
    /\ tasks' = <<>>

\* a new invocation of `sync`: options parsed, state loaded, headers built
StartRun ==
    /\ pc \in {"idle", "done", "crashed"}
    /\ \E cap \in Caps : maxAssets' = cap /\ capsUsed' = capsUsed \cup {cap}
    /\ \E h \in HeaderOffsets : lastTimezoneOffsetHours' = Some(h)
    /\ syncState' = stateFile
    /\ stateUpdated' = FALSE
    /\ cur' = 1
    /\ pc' = "enrollment"
    /\ deliveredBefore' = [e \in EnrollmentIds |-> deliveredBefore[e] \cup deliveredNow[e]]
    /\ deliveredNow' = [e \in EnrollmentIds |-> {}]
    /\ fetchDone' = {}
    /\ downloadDone' = {}
    /\ fatalAt' = {}
    /\ crashCause' = "none"
    /\ truncated' = [e \in EnrollmentIds |-> FALSE]
    /\ advanced' = [e \in EnrollmentIds |-> Null]
    /\ lastResponse' = Null
    /\ ClearLocals
    /\ UNCHANGED <<feed, feedMode, limVars, callVars, poolVars, tzOffsetHours, stateFile, lastWritten,
                   everCrashed>>

selectEffectiveStartDate(userStart, derivedStart) ==
    IF userStart = Null THEN derivedStart
    ELSE IF derivedStart = Null THEN userStart
    ELSE IF Val(userStart) > Val(derivedStart) THEN userStart ELSE derivedStart

\* the watermark read of one enrollment
\* variant of DerivedStart that resumes at the watermark itself
DerivedStart_AtWatermark(storedISO) ==
    IF storedISO = Null THEN Null ELSE parseISO(Val(storedISO))

DerivedStart(storedISO) ==
    LET storedDate == IF storedISO = Null THEN Null ELSE parseISO(Val(storedISO))
    IN  IF storedDate = Null THEN Null ELSE Some(Val(storedDate) + 1)

\* top of the enrollment loop up to the first page request
BeginEnrollment ==
    /\ pc = "enrollment"
    /\ cur <= Len(Enrollments)
    /\ startDate' = selectEffectiveStartDate(Null, DerivedStart(syncState[Enrollments[cur]]))
    /\ deduped' = <<>>
    /\ seen' = {}
    /\ beforeCursor' = formatForApi(initialUpper, FALSE)
    /\ pages' = 0
    /\ tryNum' = 0
    /\ earlyStop' = FALSE
    /\ processedItems' = <<>>
    /\ latestTimestampForState' = Null
    /\ tasks' = <<>>
    /\ pc' = "request"
    /\ UNCHANGED <<feed, feedMode, limVars, callVars, poolVars, lastResponse, capsUsed, tzOffsetHours, lastTimezoneOffsetHours, stateFile, maxAssets,
                   syncState, stateUpdated, cur, truncated, advanced, lastWritten,
                   everCrashed, deliveredBefore, deliveredNow, fetchDone,
                   downloadDone, fatalAt, crashCause>>

\* fetchNotesRange leaves its loop and returns deduped
FetchReturns(items, ids, byLimiter) ==
    /\ deduped' = items
    /\ seen' = ids
    /\ earlyStop' = byLimiter
    /\ fetchDone' = fetchDone \cup {Enrollments[cur]}
    /\ pc' = "fetched"
    /\ UNCHANGED <<beforeCursor, tryNum>>

\* variant of FeedThrows that persists the newest note fetched so far as the
\* watermark of the enrollment whose sync failed
FeedThrows_PersistsPartial ==
    /\ fatalAt' = fatalAt \cup {Enrollments[cur]}
    /\ crashCause' = "feed"
    /\ everCrashed' = TRUE
    /\ pc' = "crashed"
    /\ ClearLocals
    /\ IF deduped = <<>> \/ findLatestTimestamp(deduped) = Null
       THEN UNCHANGED <<stateFile, lastWritten>>
       ELSE /\ stateFile' = [stateFile EXCEPT ![Enrollments[cur]] =
                                Some(toISOString(Val(findLatestTimestamp(deduped))))]
            /\ lastWritten' = [lastWritten EXCEPT ![Enrollments[cur]] =
                                  findLatestTimestamp(deduped)]
    /\ UNCHANGED fetchDone

\* the error of robustGetJSON leaves fetchNotesRange and the sync action
FeedThrows ==
    /\ fatalAt' = fatalAt \cup {Enrollments[cur]}
    /\ crashCause' = "feed"
    /\ everCrashed' = TRUE
    /\ pc' = "crashed"
    /\ ClearLocals
    /\ UNCHANGED <<fetchDone, stateFile, lastWritten>>

\* variant of NextRequest that allows one page more than the budget
NextRequest_OneMorePage(items, ids, cursor) ==
    /\ deduped' = items
    /\ seen' = ids
    /\ beforeCursor' = cursor
    /\ IF pages + 1 < MAX_SYNC_PAGES + 1
       THEN /\ tryNum' = 0
            /\ pc' = "request"
            /\ UNCHANGED <<earlyStop, fetchDone>>
       ELSE /\ earlyStop' = FALSE
            /\ fetchDone' = fetchDone \cup {Enrollments[cur]}
            /\ pc' = "fetched"
            /\ UNCHANGED tryNum

\* variant of NextRequest that sends the cursor of the last request again
NextRequest_KeepsCursor(items, ids, cursor) ==
    /\ deduped' = items
    /\ seen' = ids
    /\ UNCHANGED beforeCursor
    /\ IF pages + 1 < MAX_SYNC_PAGES
       THEN /\ tryNum' = 0
            /\ pc' = "request"
            /\ UNCHANGED <<earlyStop, fetchDone>>
       ELSE /\ earlyStop' = FALSE
            /\ fetchDone' = fetchDone \cup {Enrollments[cur]}
            /\ pc' = "fetched"
            /\ UNCHANGED tryNum

\* the loop goes round: the next request carries the new cursor
NextRequest(items, ids, cursor) ==
    /\ deduped' = items
    /\ seen' = ids
    /\ beforeCursor' = cursor
    /\ IF pages + 1 < MAX_SYNC_PAGES
       THEN /\ tryNum' = 0
            /\ pc' = "request"
            /\ UNCHANGED <<earlyStop, fetchDone>>
       ELSE /\ earlyStop' = FALSE
            /\ fetchDone' = fetchDone \cup {Enrollments[cur]}
            /\ pc' = "fetched"
            /\ UNCHANGED tryNum

\* variant of AdvanceCursor without the guard: the candidate is always used
AdvanceCursor_Unguarded(items, ids, nextBefore, fallback) ==
    NextRequest(items, ids, nextBefore)

\* the cursor guard: step back one more millisecond, or stop
AdvanceCursor(items, ids, nextBefore, fallback) ==
    IF nextBefore = beforeCursor /\ fallback = beforeCursor
    THEN FetchReturns(items, ids, FALSE)
    ELSE NextRequest(items, ids, IF nextBefore = beforeCursor THEN fallback
                                 ELSE nextBefore)

\* the limiter's break: truncated, and the page's oldest is before the cutoff
Saturated(assetLimitInfo, pageOldestTimestamp) ==
    /\ assetLimitInfo.limited
    /\ assetLimitInfo.cutoffTimestamp # Null
    /\ pageOldestTimestamp # Null
    /\ Val(pageOldestTimestamp).date < Val(assetLimitInfo.cutoffTimestamp)

\* the rest of the loop body once the page is merged into deduped
AfterDedup(d, nextCursor) ==
    IF maxAssets # Null
       /\ Saturated(applySoftAssetLimit(d.deduped, Val(maxAssets)), nextCursor)
    THEN FetchReturns(d.deduped, d.seen, TRUE) /\ UNCHANGED pages
    ELSE /\ pages' = pages + 1
         /\ IF nextCursor = Null
            THEN FetchReturns(d.deduped, d.seen, FALSE)
            ELSE AdvanceCursor(d.deduped, d.seen,
                     formatForApi(Val(nextCursor).date, Val(nextCursor).treatAsUTC),
                     formatForApi(Val(nextCursor).date - 1, Val(nextCursor).treatAsUTC))

\* the loop body once the page is filtered
AfterFilter(r) == AfterDedup(Dedup(r.kept, deduped, seen), r.nextCursor)

\* the body of the pagination loop for one page of the feed
HandlePage(items) ==
    IF items = <<>>
    THEN FetchReturns(deduped, seen, FALSE) /\ UNCHANGED pages
    ELSE AfterFilter(filterByRangeAndFindNext(items, startDate, Null))

\* what robustGetJSON saw last: the status, the attempt it answered, and the
\* number of body characters in the error message (0 when nothing is thrown)
Response(status, attempt, text) ==
    Some([status |-> status, tryNum |-> attempt, text |-> text])

\* text?.slice(0, 200)
ErrorText(bodyLength) ==
    IF bodyLength < MaxErrorText THEN bodyLength ELSE MaxErrorText

\* the lengths of the response bodies that come with an error status
BodyLengths == {0, 2 * MaxErrorText}

\* variant of robustGetJSON that re-issues the request after any failure
robustGetJSON_RetriesAnyFailure ==
    /\ pc = "request"
    /\ \E status \in Statuses :
         IF status # 200 /\ tryNum < MAX_RETRIES
         THEN /\ tryNum' = tryNum + 1
              /\ lastResponse' = Response(status, tryNum, 0)
              /\ UNCHANGED <<pc, deduped, seen, beforeCursor, pages, earlyStop,
                             fetchDone, fatalAt, crashCause, startDate,
                             processedItems, latestTimestampForState, tasks,
                             stateFile, lastWritten, everCrashed>>
         ELSE IF status # 200
         THEN /\ FeedThrows
              /\ \E bodyLength \in BodyLengths :
                    lastResponse' = Response(status, tryNum, ErrorText(bodyLength))
         ELSE /\ HandlePage(FeedPage(Enrollments[cur], beforeCursor, DEFAULT_COUNT))
              /\ lastResponse' = Response(status, tryNum, 0)
              /\ UNCHANGED <<fatalAt, crashCause, startDate, processedItems,
                             latestTimestampForState, tasks, stateFile,
                             lastWritten, everCrashed>>
    /\ UNCHANGED <<feed, feedMode, limVars, callVars, poolVars, capsUsed, tzOffsetHours,
                   lastTimezoneOffsetHours, maxAssets, syncState, stateUpdated, cur,
                   truncated, advanced, deliveredBefore, deliveredNow, downloadDone>>

\* one attempt of the page request: retried, failed for good, or answered
robustGetJSON ==
    /\ pc = "request"
    /\ \E status \in Statuses :
         IF (status >= 500 \/ status = 429) /\ tryNum < MAX_RETRIES
         THEN /\ tryNum' = tryNum + 1
              /\ lastResponse' = Response(status, tryNum, 0)
              /\ UNCHANGED <<pc, deduped, seen, beforeCursor, pages, earlyStop,
                             fetchDone, fatalAt, crashCause, startDate,
                             processedItems, latestTimestampForState, tasks,
                             stateFile, lastWritten, everCrashed>>
         ELSE IF status # 200
         THEN /\ FeedThrows
              /\ \E bodyLength \in BodyLengths :
                    lastResponse' = Response(status, tryNum, ErrorText(bodyLength))
         ELSE /\ HandlePage(FeedPage(Enrollments[cur], beforeCursor, DEFAULT_COUNT))
              /\ lastResponse' = Response(status, tryNum, 0)
              /\ UNCHANGED <<fatalAt, crashCause, startDate, processedItems,
                             latestTimestampForState, tasks, stateFile,
                             lastWritten, everCrashed>>
    /\ UNCHANGED <<feed, feedMode, limVars, callVars, poolVars, capsUsed, tzOffsetHours,
                   lastTimezoneOffsetHours, maxAssets, syncState, stateUpdated, cur,
                   truncated, advanced, deliveredBefore, deliveredNow, downloadDone>>

\* the URLs of every media entry of a list of notes
RECURSIVE AssetUrls(_)
AssetUrls(items) ==
    IF items = <<>> THEN {}
    ELSE {MediaOf(Head(items))[i].public_url : i \in 1..Len(MediaOf(Head(items)))}
         \cup AssetUrls(Tail(items))

\* the items for the download stage, the watermark candidate and whether
\* the limiter truncated
SyncResult(processed, latest, limited) ==
    [processedItems |-> processed,
     latestTimestampForState |-> OrElse(latest, findLatestTimestamp(processed)),
     limited |-> limited]

SyncFromLimit(limitResult) ==
    SyncResult(limitResult.filteredItems, limitResult.latestTimestamp,
               limitResult.limited)

\* what the sync action derives from the fetched items
LimitForSync(items, cap) ==
    IF cap # Null
    THEN SyncFromLimit(applySoftAssetLimit(items, Val(cap)))
    ELSE SyncResult(items, findLatestTimestamp(items), FALSE)

\* the next iteration of the enrollment loop
NextEnrollment ==
    /\ cur' = cur + 1
    /\ pc' = "enrollment"

\* runDownloader is entered with the media entries of the processed items
EnterDownloader(e, items, mediaItems) ==
    /\ pc' = "download"
    /\ tasks' = [i \in 1..Len(mediaItems) |-> "queued"]
    /\ deliveredNow' = [deliveredNow EXCEPT ![e] = @ \cup AssetUrls(items)]
    /\ UNCHANGED cur

\* the sync action between fetchNotesRange and the download pool
HandOver(e, r) ==
    /\ processedItems' = r.processedItems
    /\ latestTimestampForState' = r.latestTimestampForState
    /\ truncated' = [truncated EXCEPT ![e] = r.limited]
    /\ IF r.processedItems = <<>>
       THEN /\ NextEnrollment
            /\ tasks' = <<>>
            /\ UNCHANGED deliveredNow
       ELSE EnterDownloader(e, r.processedItems, collectMediaEntries(r.processedItems))

\* from the return of fetchNotesRange to the start of the download pool
ProcessItems ==
    /\ pc = "fetched"
    /\ HandOver(Enrollments[cur], LimitForSync(deduped, maxAssets))
    /\ UNCHANGED <<feed, feedMode, limVars, callVars, poolVars, lastResponse, capsUsed, tzOffsetHours, lastTimezoneOffsetHours, stateFile, maxAssets,
                   syncState, stateUpdated, startDate, deduped, seen, beforeCursor,
                   pages, tryNum, earlyStop, advanced, lastWritten, everCrashed,
                   deliveredBefore, fetchDone, downloadDone, fatalAt, crashCause>>

Active == {i \in 1..Len(tasks) : tasks[i] = "active"}
Queued == {i \in 1..Len(tasks) : tasks[i] = "queued"}

\* variant of StartTask without the limiter: every mapped task starts at once
StartTask_Unlimited ==
    /\ pc = "download"
    /\ Queued # {}
    /\ LET i == CHOOSE j \in Queued : \A k \in Queued : j <= k
       IN  tasks' = [tasks EXCEPT ![i] = "active"]
    /\ UNCHANGED <<feed, feedMode, limVars, callVars, poolVars, lastResponse, capsUsed, tzOffsetHours, lastTimezoneOffsetHours, stateFile, pc,
                   maxAssets, syncState, stateUpdated, cur, startDate, deduped, seen,
                   beforeCursor, pages, tryNum, earlyStop, processedItems,
                   latestTimestampForState, truncated, advanced, lastWritten,
                   everCrashed, deliveredBefore, deliveredNow, fetchDone,
                   downloadDone, fatalAt, crashCause>>

\* p-limit hands the oldest queued task a free slot
StartTask ==
    /\ pc = "download"
    /\ Queued # {}
    /\ Cardinality(Active) < DownloadConcurrency
    /\ LET i == CHOOSE j \in Queued : \A k \in Queued : j <= k
       IN  tasks' = [tasks EXCEPT ![i] = "active"]
    /\ UNCHANGED <<feed, feedMode, limVars, callVars, poolVars, lastResponse, capsUsed, tzOffsetHours, lastTimezoneOffsetHours, stateFile, pc,
                   maxAssets, syncState, stateUpdated, cur, startDate, deduped, seen,
                   beforeCursor, pages, tryNum, earlyStop, processedItems,
                   latestTimestampForState, truncated, advanced, lastWritten,
                   everCrashed, deliveredBefore, deliveredNow, fetchDone,
                   downloadDone, fatalAt, crashCause>>

\* variant of TaskSettles without the catch: a rejected task rejects the run
TaskSettles_Uncaught(i, ok) ==
    /\ tasks' = [tasks EXCEPT ![i] = IF ok THEN "ok" ELSE "failed"]
    /\ pc' = IF ok THEN pc ELSE "crashed"
    /\ crashCause' = IF ok THEN crashCause ELSE "asset"
    /\ fatalAt' = IF ok THEN fatalAt ELSE fatalAt \cup {Enrollments[cur]}
    /\ everCrashed' = (everCrashed \/ ~ok)
    /\ UNCHANGED <<startDate, deduped, seen, beforeCursor, pages, tryNum,
                   earlyStop, processedItems, latestTimestampForState>>

\* a rejected task is caught and logged; it settles like any other
TaskSettles(i, ok) ==
    /\ tasks' = [tasks EXCEPT ![i] = IF ok THEN "ok" ELSE "failed"]
    /\ UNCHANGED <<pc, crashCause, fatalAt, everCrashed, startDate, deduped, seen,
                   beforeCursor, pages, tryNum, earlyStop, processedItems,
                   latestTimestampForState>>

\* one task of the pool: resolve the file name, download, stamp
FinishTask ==
    /\ pc = "download"
    /\ \E i \in Active : \E ok \in BOOLEAN : TaskSettles(i, ok)
    /\ UNCHANGED <<feed, feedMode, limVars, callVars, poolVars, lastResponse, capsUsed, tzOffsetHours, lastTimezoneOffsetHours, stateFile,
                   maxAssets, syncState, stateUpdated, cur, truncated, advanced,
                   lastWritten, deliveredBefore, deliveredNow, fetchDone,
                   downloadDone>>

\* syncState[enrollmentId] = latest.toISOString(); stateUpdated = true
AdvanceWatermark(e, latest) ==
    IF latest # Null
    THEN /\ syncState' = [syncState EXCEPT ![e] = Some(toISOString(Val(latest)))]
         /\ advanced' = [advanced EXCEPT ![e] = latest]
         /\ stateUpdated' = TRUE
    ELSE UNCHANGED <<syncState, advanced, stateUpdated>>

\* variant of DownloaderReturns that rewrites the state file after each enrollment
DownloaderReturns_SavesAtOnce ==
    /\ pc = "download"
    /\ \A i \in 1..Len(tasks) : tasks[i] \in {"ok", "failed"}
    /\ downloadDone' = downloadDone \cup {Enrollments[cur]}
    /\ AdvanceWatermark(Enrollments[cur],
                        OrElse(latestTimestampForState,
                               findLatestTimestamp(processedItems)))
    /\ stateFile' = syncState'
    /\ lastWritten' = [e \in EnrollmentIds |-> OrElse(advanced'[e], lastWritten[e])]
    /\ NextEnrollment
    /\ UNCHANGED <<feed, feedMode, limVars, callVars, poolVars, lastResponse, capsUsed,
                   tzOffsetHours, lastTimezoneOffsetHours, maxAssets,
                   startDate, deduped, seen, beforeCursor, pages, tryNum, earlyStop,
                   processedItems, latestTimestampForState, tasks, truncated,
                   everCrashed, deliveredBefore, deliveredNow,
                   fetchDone, fatalAt, crashCause>>

\* Promise.all resolves; the enrollment's watermark is advanced in memory
DownloaderReturns ==
    /\ pc = "download"
    /\ \A i \in 1..Len(tasks) : tasks[i] \in {"ok", "failed"}
    /\ downloadDone' = downloadDone \cup {Enrollments[cur]}
    /\ AdvanceWatermark(Enrollments[cur],
                        OrElse(latestTimestampForState,
                               findLatestTimestamp(processedItems)))
    /\ NextEnrollment
    /\ UNCHANGED <<feed, feedMode, limVars, callVars, poolVars, lastResponse, capsUsed, tzOffsetHours, lastTimezoneOffsetHours, stateFile, maxAssets,
                   startDate, deduped, seen, beforeCursor, pages, tryNum, earlyStop,
                   processedItems, latestTimestampForState, tasks, truncated,
                   lastWritten, everCrashed, deliveredBefore, deliveredNow,
                   fetchDone, fatalAt, crashCause>>

\* fs.writeFileSync(statePath, JSON.stringify(state))
saveSyncState(state) ==
    /\ stateFile' = state
    /\ lastWritten' = [e \in EnrollmentIds |-> OrElse(advanced[e], lastWritten[e])]

\* after the last enrollment: the state file is rewritten if anything advanced
FinishRun ==
    /\ pc = "enrollment"
    /\ cur > Len(Enrollments)
    /\ IF stateUpdated THEN saveSyncState(syncState)
       ELSE UNCHANGED <<stateFile, lastWritten>>
    /\ pc' = "done"
    /\ ClearLocals
    /\ UNCHANGED <<feed, feedMode, limVars, callVars, poolVars, lastResponse, capsUsed, tzOffsetHours, lastTimezoneOffsetHours, maxAssets, syncState,
                   stateUpdated, cur, truncated, advanced, everCrashed,
                   deliveredBefore, deliveredNow, fetchDone, downloadDone, fatalAt,
                   crashCause>>

Next ==
    \/ StartRun
    \/ BeginEnrollment
    \/ robustGetJSON
    \/ ProcessItems
    \/ StartTask
    \/ FinishTask
    \/ DownloaderReturns
    \/ FinishRun

Spec == Init /\ [][Next]_vars

----------------------------------------------------------------------------
(* Direct calls of applySoftAssetLimit *)

LimMaxTime == 2             \* asset and note readings of a direct call are 1..LimMaxTime
LimMaxMedia == 2            \* media entries per note of a direct call

\* the readings a media entry may carry itself; 0 stands for none
LimOwnReadings == 0..LimMaxTime

\* the media of a note, described by the own reading of each entry
LimMediaShapes ==
    UNION {[1..n -> LimOwnReadings] : n \in 0..LimMaxMedia}

\* a note, described by its reading (0: no timestamp field) and its media
LimNoteShapes == [stamp : 0..LimMaxTime, owns : LimMediaShapes]

\* lists of at most two notes
LimShapes ==
    {<<>>} \cup {<<a>> : a \in LimNoteShapes}
           \cup {<<a, b>> : a \in LimNoteShapes, b \in LimNoteShapes}

\* the note at position k of a list; its media URLs name their positions
LimNote(k, shape) ==
    IF shape.stamp = 0
    THEN [id |-> <<"n", k>>,
          media |-> [i \in 1..Len(shape.owns) |-> Media(<<k, i>>, shape.owns[i])]]
    ELSE Note(<<"n", k>>, shape.stamp,
              [i \in 1..Len(shape.owns) |-> Media(<<k, i>>, shape.owns[i])])

LimItems(shapes) == [k \in 1..Len(shapes) |-> LimNote(k, shapes[k])]

LimInputs ==
    {[items |-> LimItems(shapes), cap |-> cap] : shapes \in LimShapes, cap \in 1..MaxCap}

LimitInit ==
    /\ feed = [e \in EnrollmentIds |-> <<>>]
    /\ feedMode = "honest"
    /\ Idle
    /\ limInput \in {Some(in) : in \in LimInputs}
    /\ limOut = Null
    /\ limAgain = Null
    /\ call = Null
    /\ returned = Null

\* the variables of the sync action
syncVars == <<feed, tzOffsetHours, lastTimezoneOffsetHours, stateFile, pc, maxAssets,
              syncState, stateUpdated, cur, startDate, deduped, seen, beforeCursor,
              pages, tryNum, earlyStop, processedItems, latestTimestampForState,
              tasks, truncated, advanced, lastWritten, everCrashed, capsUsed,
              deliveredBefore, deliveredNow, fetchDone, downloadDone, fatalAt,
              crashCause, lastResponse, feedMode, disk, workers>>

\* variant of ApplyLimit that trims the caller's list in place
ApplyLimit_TrimsInPlace ==
    /\ limInput # Null
    /\ limOut = Null
    /\ limOut' = Some(applySoftAssetLimit(Val(limInput).items, Val(limInput).cap))
    /\ limInput' = Some([items |-> Val(limOut').filteredItems, cap |-> Val(limInput).cap])
    /\ UNCHANGED <<syncVars, callVars, limAgain>>

\* applySoftAssetLimit(items, maxAssets)
ApplyLimit ==
    /\ limInput # Null
    /\ limOut = Null
    /\ limOut' = Some(applySoftAssetLimit(Val(limInput).items, Val(limInput).cap))
    /\ UNCHANGED <<syncVars, callVars, limInput, limAgain>>

\* the same call once more
ReapplyLimit ==
    /\ limOut # Null
    /\ limAgain = Null
    /\ limAgain' = Some(applySoftAssetLimit(Val(limInput).items, Val(limInput).cap))
    /\ UNCHANGED <<syncVars, callVars, limInput, limOut>>

LimitNext == ApplyLimit \/ ReapplyLimit

LimitSpec == LimitInit /\ [][LimitNext]_vars

----------------------------------------------------------------------------
(* Direct calls of the timestamp and identity functions *)

CallMaxWall == 2            \* wall-clock readings of a direct call are 1..CallMaxWall

Zulu(w) == [fmt |-> "zulu", wall |-> w]
Junk == [fmt |-> "junk", wall |-> 0]
Blank == [fmt |-> "blank", wall |-> 0]
Empty == [fmt |-> "empty", wall |-> 0]

\* the values of a timestamp field that parse, and all the strings it may hold
GoodValues == {Naive(w) : w \in 1..CallMaxWall} \cup {Zulu(w) : w \in 1..CallMaxWall}
RawValues == GoodValues \cup {Junk, Blank, Empty}

\* an optional field: absent, or one value of a set
Optional(values) == {Null} \cup {Some(v) : v \in values}

\* the object that has exactly the fields given a value
WithFields(fields) ==
    [key \in {k \in DOMAIN fields : fields[k] # Null} |-> Val(fields[key])]

\* lists of at most three entries
UpToThree(S) ==
    {<<>>} \cup {<<a>> : a \in S} \cup {<<a, b>> : a \in S, b \in S}
           \cup {<<a, b, c>> : a \in S, b \in S, c \in S}

\* parseTimestamp(raw, { treatAsUTC })
ParseCalls ==
    {[fn |-> "parseTimestamp", raw |-> raw, treatAsUTC |-> treatAsUTC] :
        raw \in RawValues, treatAsUTC \in BOOLEAN}

\* the media arrays of a note whose entries carry at most a generic timestamp
ChildMedia ==
    {<<>>} \cup {<<[timestamp |-> Naive(w)]>> : w \in 1..CallMaxWall}
           \cup {<<[caption |-> "c"], [timestamp |-> Naive(w)]>> : w \in 1..CallMaxWall}

\* extractTimestamp(item): a note with a civil-local field, an absolute one, media
ExtractCalls ==
    {[fn |-> "extractTimestamp",
      item |-> WithFields([create_at |-> local, create_at_utc |-> utc, media |-> media])] :
        local \in Optional(RawValues), utc \in Optional(RawValues),
        media \in Optional(ChildMedia)}

\* resolveAssetTimestamp(mediaEntry, anyItem, parentTimestamp), as line 327 calls it
ResolveCalls ==
    {[fn |-> "resolveAssetTimestamp",
      media |-> WithFields([createAtUtc |-> own, created_at |-> ownLocal,
                            timestamp |-> generic]),
      parent |-> WithFields([create_at |-> local, createAtUtc |-> utc])] :
        own \in Optional(RawValues),
        ownLocal \in Optional({Naive(w) : w \in 1..CallMaxWall}),
        generic \in Optional({Naive(w) : w \in 1..CallMaxWall} \cup {Junk}),
        local \in Optional({Naive(w) : w \in 1..CallMaxWall}),
        utc \in Optional({Naive(w) : w \in 1..CallMaxWall})}

\* findLatestTimestamp(items)
LatestCalls ==
    {[fn |-> "findLatestTimestamp", items |-> items] :
        items \in UpToThree({WithFields([create_at |-> local, media |-> media]) :
                     local \in Optional({Naive(w) : w \in 1..CallMaxWall} \cup {Junk}),
                     media \in {Null, Some(<<[timestamp |-> Naive(1)]>>)}})}

\* the notes of a page: id-like fields, a timestamp, a payload
PageNotes ==
    {WithFields([id |-> id, note_id |-> noteId, create_at |-> local,
                 payload |-> Some(payload)]) :
        id \in Optional({"x", "y"}), noteId \in Optional({"x"}),
        local \in Optional({Naive(1)}), payload \in {"a", "b"}}

\* the dedup loop of fetchNotesRange on one page, fed `fed` times so far
DedupCalls ==
    {[fn |-> "dedup", kept |-> kept, fed |-> 0] : kept \in UpToThree(PageNotes)}

\* the instant of a local wall-clock reading
LocalInstant(w) == Val(parseTimestamp(Naive(w), FALSE)).date

\* filterByRangeAndFindNext(items, startDate, endDate): pages of at most two
\* notes, a start and an end around their instants
RangeNotes ==
    {WithFields([id |-> Some("x"), create_at |-> local]) :
        local \in Optional({Naive(w) : w \in 1..CallMaxWall} \cup {Junk})}

RangeCalls ==
    {[fn |-> "filterByRangeAndFindNext", items |-> items, startDate |-> start,
      endDate |-> end] :
        items \in {<<a>> : a \in RangeNotes} \cup {<<a, b>> : a, b \in RangeNotes},
        start \in Optional({LocalInstant(w) : w \in 1..CallMaxWall}),
        end \in Optional({addDays(LocalInstant(w), -1) : w \in 1..CallMaxWall})}

\* path.extname(filePath).toLowerCase().replace(/^\./, "")
FileExtensions == {"mp4", "mov", "m4v", "png", "webp", "jpg", "jpeg", "heic", "bin", "MP4", "PNG", "JPG", ""}

toLowerCase(text) ==
    CASE text = "MP4" -> "mp4"
      [] text = "PNG" -> "png"
      [] text = "JPG" -> "jpg"
      [] OTHER -> text

\* the stamping function applyMetadata hands the file to, "none" when the
\* asset has no usable timestamp
applyMetadata(fileExtension, mediaType, timestamp) ==
    IF timestamp = Null THEN "none"
    ELSE IF toLowerCase(fileExtension) \in {"mp4", "mov", "m4v"} \/ mediaType = "video"
    THEN "stampVideo"
    ELSE IF toLowerCase(fileExtension) \in {"png", "webp"}
    THEN "stampPngOrWebp"
    ELSE IF toLowerCase(fileExtension) \in {"jpg", "jpeg", "heic"} \/ mediaType = "image"
    THEN "stampStillImage"
    ELSE "stampGeneric"

\* applyMetadata(filePath, entry, timezone)
MetadataCalls ==
    {[fn |-> "applyMetadata", extension |-> extension, mediaType |-> mediaType,
      timestamp |-> timestamp] :
        extension \in FileExtensions, mediaType \in {"video", "image", "unknown"},
        timestamp \in Optional({LocalInstant(1)})}

CallInit ==
    /\ feed = [e \in EnrollmentIds |-> <<>>]
    /\ feedMode = "honest"
    /\ Idle
    /\ limInput = Null
    /\ limOut = Null
    /\ limAgain = Null
    /\ call \in {Some(c) : c \in ParseCalls \cup ExtractCalls \cup ResolveCalls
                                  \cup LatestCalls \cup DedupCalls \cup RangeCalls
                                  \cup MetadataCalls}
    /\ returned = Null

\* the call of the function named fn returns result
Returns(fn, result) ==
    /\ call # Null
    /\ Val(call).fn = fn
    /\ returned = Null
    /\ returned' = Some(result)
    /\ UNCHANGED <<syncVars, limVars, call>>

CallParseTimestamp ==
    /\ call # Null /\ Val(call).fn = "parseTimestamp"
    /\ Returns("parseTimestamp", parseTimestamp(Val(call).raw, Val(call).treatAsUTC))

CallExtractTimestamp ==
    /\ call # Null /\ Val(call).fn = "extractTimestamp"
    /\ Returns("extractTimestamp", extractTimestamp(Val(call).item))

CallResolveAssetTimestamp ==
    /\ call # Null /\ Val(call).fn = "resolveAssetTimestamp"
    /\ Returns("resolveAssetTimestamp",
               resolveAssetTimestamp(Val(call).media, Val(call).parent,
                                     DateOf(extractTimestamp(Val(call).parent))))

CallFindLatestTimestamp ==
    /\ call # Null /\ Val(call).fn = "findLatestTimestamp"
    /\ Returns("findLatestTimestamp", findLatestTimestamp(Val(call).items))

CallFilterByRange ==
    /\ call # Null /\ Val(call).fn = "filterByRangeAndFindNext"
    /\ Returns("filterByRangeAndFindNext",
               filterByRangeAndFindNext(Val(call).items, Val(call).startDate,
                                        Val(call).endDate))

CallApplyMetadata ==
    /\ call # Null /\ Val(call).fn = "applyMetadata"
    /\ Returns("applyMetadata",
               applyMetadata(Val(call).extension, Val(call).mediaType,
                             Val(call).timestamp))

\* deduped and seen before the first page is merged
NothingSeen == [deduped |-> <<>>, seen |-> {}]

\* for (const it of kept) { ... }: the page is merged into deduped, up to twice
MergePage ==
    /\ call # Null /\ Val(call).fn = "dedup"
    /\ Val(call).fed < 2
    /\ call' = Some([Val(call) EXCEPT !.fed = @ + 1])
    /\ returned' = Some(IF returned = Null
                        THEN Dedup(Val(call).kept, NothingSeen.deduped, NothingSeen.seen)
                        ELSE Dedup(Val(call).kept, Val(returned).deduped,
                                   Val(returned).seen))
    /\ UNCHANGED <<syncVars, limVars>>

CallNext ==
    \/ CallParseTimestamp
    \/ CallExtractTimestamp
    \/ CallResolveAssetTimestamp
    \/ CallFindLatestTimestamp
    \/ CallFilterByRange
    \/ CallApplyMetadata
    \/ MergePage

CallSpec == CallInit /\ [][CallNext]_vars

----------------------------------------------------------------------------
(* The rewrite of the state file *)

\* the entries a state file may hold for one enrollment
StoredWatermarks == {Null} \cup {Some(toISOString(t)) : t \in 1..MaxTime}

\* the instants of the watermarks of a mapping
InstantsOf(state) ==
    [e \in EnrollmentIds |-> IF state[e] = Null THEN Null ELSE parseISO(Val(state[e]))]

\* the sync action is about to call saveSyncState: the file holds the mapping
\* an earlier run wrote, syncState the mapping of this run
SaveInit ==
    /\ feed = [e \in EnrollmentIds |-> <<>>]
    /\ feedMode = "honest"
    /\ Quiet
    /\ stateFile \in [EnrollmentIds -> StoredWatermarks]
    /\ lastWritten = InstantsOf(stateFile)
    /\ syncState \in [EnrollmentIds -> StoredWatermarks]
    /\ stateUpdated = TRUE
    /\ pc = "save"
    /\ limInput = Null
    /\ limOut = Null
    /\ limAgain = Null
    /\ call = Null
    /\ returned = Null

\* what a step of the rewrite leaves alone
SaveFrame ==
    UNCHANGED <<feed, feedMode, limVars, callVars, poolVars, tzOffsetHours,
                lastTimezoneOffsetHours, maxAssets, stateUpdated, cur, startDate,
                deduped, seen, beforeCursor, pages, tryNum, earlyStop,
                processedItems, latestTimestampForState, tasks, truncated, advanced,
                lastWritten, everCrashed, capsUsed, deliveredBefore, deliveredNow,
                fetchDone, downloadDone, fatalAt, crashCause, lastResponse>>

\* fs.writeFileSync opens the file for writing, which empties it
OpenStateFile ==
    /\ pc = "save"
    /\ stateFile' = [e \in EnrollmentIds |-> Null]
    /\ pc' = "writing"
    /\ UNCHANGED syncState
    /\ SaveFrame

\* fs.writeFileSync has written the whole text
WriteStateFile ==
    /\ pc = "writing"
    /\ stateFile' = syncState
    /\ pc' = "done"
    /\ UNCHANGED syncState
    /\ SaveFrame

\* the process dies, or the write fails, before the text is complete: the
\* file holds a part of it, which JSON.parse rejects
WriteFails ==
    /\ pc = "writing"
    /\ pc' = "crashed"
    /\ UNCHANGED <<stateFile, syncState>>
    /\ SaveFrame

\* loadSyncState of a later run: {} when the text does not parse
loadSyncState ==
    /\ pc \in {"done", "crashed"}
    /\ syncState' = stateFile
    /\ pc' = "loaded"
    /\ UNCHANGED stateFile
    /\ SaveFrame

SaveNext == OpenStateFile \/ WriteStateFile \/ WriteFails \/ loadSyncState

SaveSpec == SaveInit /\ [][SaveNext]_vars

----------------------------------------------------------------------------
(* The files of the download pool *)

\* a path of the output directory: a file name (stem and suffix number, 0 for
\* none) or that name with ".partial" appended
FilePath(stem, attempt) == [stem |-> stem, attempt |-> attempt, partial |-> FALSE]
PartialOf(path) == [path EXCEPT !.partial = TRUE]

\* path.basename of the URL's path without its extension, `media-${index}` when empty
StemOf(url, index) ==
    IF url.base = "" THEN <<"media-0", "media-1", "media-2">>[index + 1] ELSE url.base

\* the first of stem, stem-1, stem-2, .. that fs.existsSync does not find
resolveDestinationFilename(files, url, index) ==
    FilePath(StemOf(url, index),
             CHOOSE k \in 0..Cardinality(files) :
                /\ FilePath(StemOf(url, index), k) \notin files
                /\ \A smaller \in 0..(k - 1) :
                      FilePath(StemOf(url, index), smaller) \in files)

\* media URLs: two directories, one shared base name, one path without a name
PoolUrls == {[dir |-> d, base |-> b] : d \in {"a", "b"}, b \in {"img", ""}}

\* the items runDownloader is called with: one note with two or three assets
PoolItems ==
    {<<[id |-> "n", create_at |-> Naive(1),
        media |-> [i \in 1..Len(urls) |-> [public_url |-> urls[i]]]]>> :
        urls \in {<<u, v>> : u, v \in PoolUrls}
                 \cup {<<u, v, w>> : u, v, w \in PoolUrls}}

\* runDownloader has mapped its media entries to tasks; the output directory
\* is empty or holds a file of an earlier run
PoolInit ==
    /\ feed = [e \in EnrollmentIds |-> <<>>]
    /\ feedMode = "honest"
    /\ tzOffsetHours \in TzOffsets
    /\ lastTimezoneOffsetHours = Null
    /\ stateFile = [e \in EnrollmentIds |-> Null]
    /\ pc = "download"
    /\ maxAssets = Null
    /\ syncState = [e \in EnrollmentIds |-> Null]
    /\ stateUpdated = FALSE
    /\ cur = 1
    /\ startDate = Null
    /\ deduped = <<>>
    /\ seen = {}
    /\ beforeCursor = 0
    /\ pages = 0
    /\ tryNum = 0
    /\ earlyStop = FALSE
    /\ processedItems \in PoolItems
    /\ latestTimestampForState = Null
    /\ tasks = [i \in 1..Len(collectMediaEntries(processedItems)) |-> "queued"]
    /\ disk \in {{}, {FilePath("img", 0)}}
    /\ workers = [i \in 1..Len(collectMediaEntries(processedItems)) |->
                    [at |-> "resolve", filename |-> Null]]
    /\ truncated = [e \in EnrollmentIds |-> FALSE]
    /\ advanced = [e \in EnrollmentIds |-> Null]
    /\ lastWritten = [e \in EnrollmentIds |-> Null]
    /\ everCrashed = FALSE
    /\ capsUsed = {}
    /\ deliveredBefore = [e \in EnrollmentIds |-> {}]
    /\ deliveredNow = [e \in EnrollmentIds |-> {}]
    /\ fetchDone = {}
    /\ downloadDone = {}
    /\ fatalAt = {}
    /\ crashCause = "none"
    /\ lastResponse = Null
    /\ limInput = Null
    /\ limOut = Null
    /\ limAgain = Null
    /\ call = Null
    /\ returned = Null

\* what a step of a task leaves alone
PoolFrame ==
    UNCHANGED <<feed, feedMode, limVars, callVars, lastResponse, capsUsed,
                tzOffsetHours, lastTimezoneOffsetHours, stateFile, pc, maxAssets,
                syncState, stateUpdated, cur, startDate, deduped, seen, beforeCursor,
                pages, tryNum, earlyStop, processedItems, latestTimestampForState,
                truncated, advanced, lastWritten, everCrashed, deliveredBefore,
                deliveredNow, fetchDone, downloadDone, fatalAt, crashCause>>

\* the task of entry i moves on; `status` is its new status in the pool
TaskMoves(i, at, status) ==
    /\ workers' = [workers EXCEPT ![i].at = at]
    /\ tasks' = [tasks EXCEPT ![i] = status]

\* const filename = await resolveDestinationFilename(outdir, entry.url, index)
ResolveName ==
    /\ \E i \in Active :
          /\ workers[i].at = "resolve"
          /\ workers' = [workers EXCEPT ![i] =
                [at |-> "fetch",
                 filename |-> Some(resolveDestinationFilename(disk,
                                 collectMediaEntries(processedItems)[i].url, i - 1))]]
    /\ UNCHANGED <<tasks, disk>>
    /\ PoolFrame

\* downloadToFile: fetch answers; with a body, the .partial file is opened
OpenPartial ==
    /\ \E i \in Active : \E ok \in BOOLEAN :
          /\ workers[i].at = "fetch"
          /\ IF ok
             THEN /\ disk' = disk \cup {PartialOf(Val(workers[i].filename))}
                  /\ TaskMoves(i, "write", "active")
             ELSE /\ TaskMoves(i, "dropped", "failed")
                  /\ UNCHANGED disk
    /\ PoolFrame

\* downloadToFile: the pipeline ends and the .partial file is renamed, or an
\* error removes it
RenamePartial ==
    /\ \E i \in Active : \E ok \in BOOLEAN :
          /\ workers[i].at = "write"
          /\ IF ok /\ PartialOf(Val(workers[i].filename)) \in disk
             THEN /\ disk' = (disk \ {PartialOf(Val(workers[i].filename))})
                                \cup {Val(workers[i].filename)}
                  /\ TaskMoves(i, "stamp", "active")
             ELSE /\ disk' = disk \ {PartialOf(Val(workers[i].filename))}
                  /\ TaskMoves(i, "dropped", "failed")
    /\ PoolFrame

\* await applyMetadata(filePath, entry, resolvedTimezone)
StampFile ==
    /\ \E i \in Active : \E ok \in BOOLEAN :
          /\ workers[i].at = "stamp"
          /\ TaskMoves(i, "stamped", IF ok THEN "ok" ELSE "failed")
    /\ UNCHANGED disk
    /\ PoolFrame

PoolNext == StartTask \/ ResolveName \/ OpenPartial \/ RenamePartial \/ StampFile

PoolSpec == PoolInit /\ [][PoolNext]_vars

----------------------------------------------------------------------------
(* Vocabulary of the properties *)

\* the instant of the watermark in the state file, read as the next run reads it
Persisted(e) == IF stateFile[e] = Null THEN Null ELSE parseISO(Val(stateFile[e]))

\* the instant the range filter compares with the start instant
NoteInstant(note) == DateOf(extractTimestamp(note))

\* the assets of an enrollment that no run has handed to the download stage
Undelivered(e) == AssetUrls(feed[e]) \ (deliveredBefore[e] \cup deliveredNow[e])

\* a note the next run's range filter drops: its instant is before W + 1 ms
BehindWatermark(note, w) ==
    NoteInstant(note) # Null /\ Val(NoteInstant(note)) < Val(w) + 1

\* the notes of the feed a complete pagination from the current start returns
CompleteFetch(e) == KeptOf(feed[e], startDate, Null)

NoteIds(items) == {items[i].id : i \in 1..Len(items)}

\* the assets the limiter selects from a list of notes
SelectedUrls(items, cap) == AssetUrls(applySoftAssetLimit(items, cap).filteredItems)

\* C1: after a run that the limiter truncated and that persisted watermark W
\* for an enrollment, no asset that was never handed to the download stage
\* belongs to a note at or before W (every such note is kept by the next run,
\* which starts at W + 1 ms).
C1_NoUndeliveredBehindWatermark ==
    \A e \in EnrollmentIds :
        (pc = "done" /\ e \in downloadDone /\ truncated[e] /\ advanced[e] # Null)
        => \A i \in 1..Len(feed[e]) :
               AssetUrls(<<feed[e][i]>>) \cap Undelivered(e) # {}
               => ~BehindWatermark(feed[e][i], Persisted(e))

\* C2: over a static feed, a run never hands to the download stage an asset
\* that an earlier run already handed to it (here: when no run has failed).
C2_NoRedelivery ==
    \A e \in EnrollmentIds :
        ~everCrashed => deliveredNow[e] \cap deliveredBefore[e] = {}

\* C3: repeated runs with one cap C >= 1 deliver every asset of a static feed.
\* Stated on the state no run can leave: once the persisted watermark is at or after every
\* note of the feed, every later run filters every note out, so by then every
\* asset must have been delivered.
C3_BacklogDrains ==
    \A e \in EnrollmentIds :
        (pc = "done" /\ ~everCrashed /\ Persisted(e) # Null
            /\ \E c \in 1..MaxCap : capsUsed = {Some(c)}
            /\ \A i \in 1..Len(feed[e]) : BehindWatermark(feed[e][i], Persisted(e)))
        => Undelivered(e) = {}

\* C4: the watermark persisted for an enrollment never moves to an earlier
\* instant.
C4_WatermarkNeverRegresses ==
    [][\A e \in EnrollmentIds :
          lastWritten[e] # Null
          => lastWritten'[e] # Null /\ Val(lastWritten'[e]) >= Val(lastWritten[e])]_vars

\* C5: when pagination stops through the limiter's break, the assets selected
\* from the pages fetched so far are the assets selected from the complete
\* feed newer than the start instant.
C5_EarlyStopKeepsSelection ==
    (pc = "fetched" /\ earlyStop)
    => SelectedUrls(deduped, Val(maxAssets))
       = SelectedUrls(CompleteFetch(Enrollments[cur]), Val(maxAssets))

\* C6: with no cap and the page budget not exhausted, fetchNotesRange returns
\* every note of the feed at or after the start instant, including notes that
\* share an instant with a page's oldest record.
C6_FetchReturnsEveryNote ==
    (pc = "fetched" /\ maxAssets = Null /\ pages < MAX_SYNC_PAGES)
    => NoteIds(CompleteFetch(Enrollments[cur])) \subseteq NoteIds(deduped)

\* C7: the start instant of an enrollment is the persisted watermark plus one
\* millisecond, and absent when no watermark is persisted.
C7_StartIsWatermarkPlusOne ==
    pc \in {"request", "fetched", "download"}
    => startDate = IF stateFile[Enrollments[cur]] = Null THEN Null
                   ELSE Some(Val(lastWritten[Enrollments[cur]]) + 1)

\* C7 witness: a page request of a run that resumes from a persisted watermark
C7_Witness ==
    /\ pc = "request"
    /\ stateFile[Enrollments[cur]] # Null
    /\ startDate = Some(Val(lastWritten[Enrollments[cur]]) + 1)

\* C8: when the feed fails fatally for one enrollment, every other enrollment
\* of the run is still synced.
C8_OtherEnrollmentsStillSynced ==
    pc = "crashed" => \A e \in EnrollmentIds \ fatalAt : e \in fetchDone

\* C9: the state file's watermark of an enrollment changes only when that
\* enrollment's fetch and download stage completed in the run without a fatal
\* error.
C9_WatermarkOnlyAfterCompletion ==
    [][\A e \in EnrollmentIds :
          stateFile'[e] # stateFile[e]
          => e \in fetchDone /\ e \in downloadDone /\ e \notin fatalAt]_vars

\* C9 witness: a run failed fatally at an enrollment that has a persisted
\* watermark, after another enrollment had advanced in memory
C9_Witness ==
    /\ pc = "crashed"
    /\ \E e \in fatalAt : stateFile[e] # Null /\ stateFile[e] = syncState[e]
    /\ \E e \in downloadDone : syncState[e] # stateFile[e]

\* C10: a failed download or stamp does not make the run fail, and when the
\* download stage of an enrollment is over every media entry was attempted.
C10_AssetFailureIsolated ==
    /\ crashCause # "asset"
    /\ (pc = "enrollment" /\ tasks # <<>>)
       => /\ \A i \in 1..Len(tasks) : tasks[i] \in {"ok", "failed"}
          /\ Enrollments[cur - 1] \in downloadDone

\* C10 witness: the download stage returned although the first asset failed,
\* and a sibling was downloaded after it
C10_Witness ==
    /\ pc = "enrollment"
    /\ Len(tasks) >= 2
    /\ tasks[1] = "failed"
    /\ tasks[2] = "ok"
    /\ Enrollments[cur - 1] \in downloadDone

\* the sync action against a vendor that may ignore the cursor
PagingInit ==
    /\ feed \in AccountFeeds
    /\ feedMode \in FeedModes
    /\ Idle
    /\ limInput = Null
    /\ limOut = Null
    /\ limAgain = Null
    /\ call = Null
    /\ returned = Null

PagingSpec == PagingInit /\ [][Next]_vars

\* a status robustGetJSON answers by issuing the request again
Retryable(status) == status >= 500 \/ status = 429

\* C11: a feed request is re-issued only after a 5xx or 429 response and at
\* most MAX_RETRIES times; the error that ends it carries a non-success status
\* (a retryable one only from the last attempt) and at most 200 characters of
\* the body; the page is used only from a response with status 200.
C11_RetryPolicy ==
    /\ tryNum <= MAX_RETRIES
    /\ (pc = "crashed" /\ crashCause = "feed") => lastResponse # Null
    /\ lastResponse # Null =>
         /\ (pc = "request" /\ tryNum > 0)
              => /\ Retryable(Val(lastResponse).status)
                 /\ tryNum = Val(lastResponse).tryNum + 1
         /\ pc = "crashed"
              => /\ Val(lastResponse).status # 200
                 /\ Retryable(Val(lastResponse).status)
                      => Val(lastResponse).tryNum = MAX_RETRIES
                 /\ Val(lastResponse).text <= MaxErrorText
         /\ pc = "fetched" => Val(lastResponse).status = 200

\* C11 witness: the fifth attempt still got a 500 and the run failed with the
\* body cut to 200 characters
C11_Witness ==
    /\ pc = "crashed"
    /\ lastResponse # Null
    /\ Val(lastResponse).status = 500
    /\ Val(lastResponse).tryNum = MAX_RETRIES
    /\ Val(lastResponse).text = MaxErrorText

\* the responses fetchNotesRange can still consume before its loop must end:
\* the attempts left for this request plus all attempts of the pages left
FetchBudget == (MAX_SYNC_PAGES - pages) * (MAX_RETRIES + 1) - tryNum

\* C12: whatever the feed answers, every page request of fetchNotesRange is
\* made with fewer than maxPages pages counted, and the loop is left after
\* finitely many responses: each response that does not end the loop (a retry
\* or a next page) lowers a budget that is positive while a request is pending.
C12_FetchTerminates ==
    [][/\ pc = "request" => (pages < MAX_SYNC_PAGES /\ FetchBudget > 0)
       /\ (pc = "request" /\ pc' = "request")
            => (FetchBudget' < FetchBudget /\ FetchBudget' > 0)]_vars

\* C12 witness: a vendor that repeats its newest page made fetchNotesRange use
\* up its page budget and return
C12_Witness ==
    /\ pc = "fetched"
    /\ feedMode = "stuck"
    /\ pages = MAX_SYNC_PAGES
    /\ deduped # <<>>

\* the page the vendor returns for the pending request
PendingPage == FeedPage(Enrollments[cur], beforeCursor, DEFAULT_COUNT)

\* the oldest record of a page as a cursor, moved back by back milliseconds
CursorOf(oldest, back) ==
    formatForApi(Val(oldest).date - back, Val(oldest).treatAsUTC)

\* a step of fetchNotesRange from one page request to the request of the next page
NextPageStep == pc = "request" /\ pc' = "request" /\ pages' = pages + 1

\* C13 as stated: after each page that is not the last, the next cursor is the
\* page's oldest record instant minus one millisecond, in that record's basis.
C13_CursorIsOldestMinusOne ==
    [][NextPageStep => beforeCursor' = CursorOf(OldestOf(PendingPage), 1)]_vars

\* C13 amended: the next cursor is the page's oldest record instant itself, in
\* that record's basis (one millisecond earlier only when that would repeat the
\* cursor just used), and a vendor that honours the exclusive upper bound
\* returns no record again that was already accumulated.
C13_CursorIsOldest ==
    [][NextPageStep =>
         /\ beforeCursor' = IF CursorOf(OldestOf(PendingPage), 0) = beforeCursor
                            THEN CursorOf(OldestOf(PendingPage), 1)
                            ELSE CursorOf(OldestOf(PendingPage), 0)
         /\ NoteIds(PendingPage') \cap seen' = {}]_vars

\* C13 witness: the second page was requested with the first page's oldest
\* instant as its cursor, and the feed answers with older notes
C13_Witness ==
    /\ pc = "request"
    /\ pages = 1
    /\ deduped # <<>>
    /\ OldestOf(deduped) # Null
    /\ beforeCursor = CursorOf(OldestOf(deduped), 0)
    /\ PendingPage # <<>>

\* the number of media entries of a list of notes
RECURSIVE CountAssets(_)
CountAssets(items) ==
    IF items = <<>> THEN 0
    ELSE Len(MediaOf(Head(items))) + CountAssets(Tail(items))

\* a direct call has returned, and its arguments and result
LimCalled == limInput # Null /\ limOut # Null
LimArgItems == Val(limInput).items
LimArgCap == Val(limInput).cap
LimReturned == Val(limOut)

\* C14: with a cap at or above the number of media assets of the list,
\* applySoftAssetLimit returns the list itself as filteredItems, limited = false
\* and selectedAssets = totalAssets (the number of assets of the list).
C14_CapNotReachedKeepsInput ==
    (LimCalled /\ LimArgCap >= CountAssets(LimArgItems))
    => /\ LimReturned.filteredItems = LimArgItems
       /\ LimReturned.limited = FALSE
       /\ LimReturned.totalAssets = CountAssets(LimArgItems)
       /\ LimReturned.selectedAssets = LimReturned.totalAssets

\* C14 witness: a call on two notes that hold exactly cap assets
C14_Witness ==
    /\ LimCalled
    /\ Len(LimArgItems) = 2
    /\ CountAssets(LimArgItems) = LimArgCap
    /\ LimReturned.filteredItems = LimArgItems

\* C15: with more assets than the cap, applySoftAssetLimit selects at least
\* cap assets, and the notes it returns hold exactly the selected ones.
C15_AtLeastCapSelected ==
    (LimCalled /\ CountAssets(LimArgItems) > LimArgCap)
    => /\ LimReturned.selectedAssets >= LimArgCap
       /\ CountAssets(LimReturned.filteredItems) = LimReturned.selectedAssets

\* C15 witness: a call with more assets than the cap that selected exactly cap
C15_Witness ==
    /\ LimCalled
    /\ CountAssets(LimArgItems) > LimArgCap
    /\ LimReturned.selectedAssets = LimArgCap

\* the asset records of the call's items, as a set
LimRecordSet ==
    {AssetRecords(LimArgItems, Len(LimArgItems))[i] : i \in 1..CountAssets(LimArgItems)}

\* the asset of a record is among the media of the notes the call returned
IsSelected(r) ==
    LimArgItems[r.itemIndex].media[r.mediaIndex].public_url
        \in AssetUrls(LimReturned.filteredItems)

\* the call had more assets than the cap
OverCap == LimCalled /\ CountAssets(LimArgItems) > LimArgCap

C17_TieGroupNotSplit ==
    (LimCalled /\ LimReturned.limited)
    => \A r \in LimRecordSet :
          (~IsSelected(r) /\ r.timestamp # Null)
          => r.timestamp # LimReturned.cutoffTimestamp

\* C17 witness: a truncated call that selected more than cap assets, the extra
\* ones sharing the cutoff instant
C17_Witness ==
    /\ LimCalled
    /\ LimReturned.limited
    /\ LimReturned.selectedAssets > LimArgCap
    /\ \E r \in LimRecordSet, u \in LimRecordSet :
          /\ r # u /\ IsSelected(r) /\ IsSelected(u)
          /\ r.timestamp = LimReturned.cutoffTimestamp
          /\ u.timestamp = LimReturned.cutoffTimestamp

\* the order of the selection: ascending instant, an absent instant last, ties
\* by note position and then by asset position
StatedBefore(a, b) ==
    \/ a.timestamp # Null /\ b.timestamp = Null
    \/ a.timestamp # Null /\ b.timestamp # Null /\ Val(a.timestamp) < Val(b.timestamp)
    \/ a.timestamp = b.timestamp /\ a.itemIndex < b.itemIndex
    \/ a.timestamp = b.timestamp /\ a.itemIndex = b.itemIndex /\ a.mediaIndex < b.mediaIndex

\* the selected (note position, asset position) pairs of a result
SelectedPairs(result) ==
    {<<r.itemIndex, r.mediaIndex>> :
        r \in {x \in LimRecordSet :
                 LimArgItems[x.itemIndex].media[x.mediaIndex].public_url
                     \in AssetUrls(result.filteredItems)}}

\* C18: the selection is deterministic: the comparator of the sort is the
\* stated order and leaves no two assets unordered, a truncated selection is a
\* prefix of that order, and a second call on the same arguments returns the
\* same pairs, counts, cutoff and latest instant.
C18_SelectionDeterministic ==
    LimCalled
    => /\ \A a \in LimRecordSet, b \in LimRecordSet :
             /\ RecordBefore(a, b) <=> StatedBefore(a, b)
             /\ a # b => (RecordBefore(a, b) # RecordBefore(b, a))
       /\ \A r \in LimRecordSet, u \in LimRecordSet :
             (IsSelected(r) /\ ~IsSelected(u)) => StatedBefore(r, u)
       /\ limAgain # Null
          => /\ SelectedPairs(Val(limAgain)) = SelectedPairs(LimReturned)
             /\ Val(limAgain).totalAssets = LimReturned.totalAssets
             /\ Val(limAgain).selectedAssets = LimReturned.selectedAssets
             /\ Val(limAgain).limited = LimReturned.limited
             /\ Val(limAgain).cutoffTimestamp = LimReturned.cutoffTimestamp
             /\ Val(limAgain).latestTimestamp = LimReturned.latestTimestamp

\* C18 witness: two calls on assets without instants, where only position
\* decides which of them are selected
C18_Witness ==
    /\ OverCap
    /\ limAgain # Null
    /\ \A r \in LimRecordSet : r.timestamp = Null
    /\ \E r \in LimRecordSet, u \in LimRecordSet :
          /\ IsSelected(r) /\ ~IsSelected(u)
          /\ r.itemIndex < u.itemIndex
          /\ r.mediaIndex > u.mediaIndex

\* every asset of the call has an instant and no two assets share one
AllDistinctInstants ==
    /\ \A r \in LimRecordSet : r.timestamp # Null
    /\ \A a \in LimRecordSet, b \in LimRecordSet : a # b => a.timestamp # b.timestamp

C20_LimitedIffFewerSelected ==
    LimCalled
    => /\ LimReturned.limited
            <=> LimReturned.selectedAssets < LimReturned.totalAssets
       /\ LimReturned.totalAssets = CountAssets(LimArgItems)
       /\ LimReturned.selectedAssets
            = Cardinality({r \in LimRecordSet : IsSelected(r)})

\* C20 witness: a cap below the total where the ties at the boundary bring
\* every asset in
C20_Witness ==
    /\ OverCap
    /\ LimReturned.selectedAssets = LimReturned.totalAssets
    /\ ~LimReturned.limited
    /\ LimReturned.cutoffTimestamp # Null

\* C21: applySoftAssetLimit leaves its input unchanged: the list, its notes and
\* their media are after the call what they were before it, and the trimmed
\* notes of the result are copies.
C21_InputUnchanged ==
    [][/\ limInput' = limInput
       /\ limOut' # Null
          => Val(limOut').totalAssets = CountAssets(Val(limInput').items)]_vars

\* C21 witness: a call that trimmed a note, whose original still has all its media
C21_Witness ==
    /\ LimCalled
    /\ LimReturned.limited
    /\ \E j \in 1..Len(LimReturned.filteredItems), k \in 1..Len(LimArgItems) :
          /\ LimReturned.filteredItems[j].id = LimArgItems[k].id
          /\ Len(LimReturned.filteredItems[j].media) < Len(LimArgItems[k].media)

\* the position in the input of the note an entry of the result stems from
OriginOf(entry) == entry.id[2]

\* the position in its note of a media entry of the result
MediaOriginOf(media) == media.public_url[2]

\* an entry of the result is its original with a sublist of the media, in order
\* and not empty
TrimOf(entry, original) ==
    /\ [entry EXCEPT !.media = original.media] = original
    /\ \A i \in 1..Len(entry.media) :
          entry.media[i] = original.media[MediaOriginOf(entry.media[i])]
    /\ \A i \in 1..Len(entry.media), j \in 1..Len(entry.media) :
          i < j => MediaOriginOf(entry.media[i]) < MediaOriginOf(entry.media[j])
    /\ original.media # <<>> => entry.media # <<>>

\* C22: when the selection ran, filteredItems is a subsequence of the input in
\* note order; each note that had media keeps a non-empty sublist of them in
\* the original order, a note without media is kept, and the media entries
\* of filteredItems number selectedAssets.
C22_FilteredItemsAreTrimmedInput ==
    OverCap
    => /\ \A j \in 1..Len(LimReturned.filteredItems) :
             /\ OriginOf(LimReturned.filteredItems[j]) \in 1..Len(LimArgItems)
             /\ TrimOf(LimReturned.filteredItems[j],
                       LimArgItems[OriginOf(LimReturned.filteredItems[j])])
       /\ \A i \in 1..Len(LimReturned.filteredItems),
             j \in 1..Len(LimReturned.filteredItems) :
             i < j => OriginOf(LimReturned.filteredItems[i])
                        < OriginOf(LimReturned.filteredItems[j])
       /\ \A k \in 1..Len(LimArgItems) :
             LimArgItems[k].media = <<>>
             => \E j \in 1..Len(LimReturned.filteredItems) :
                   LimReturned.filteredItems[j] = LimArgItems[k]
       /\ CountAssets(LimReturned.filteredItems) = LimReturned.selectedAssets

\* C22 witness: a truncated call that dropped a note and trimmed another to
\* its second media entry
C22_Witness ==
    /\ OverCap
    /\ LimReturned.limited
    /\ Len(LimReturned.filteredItems) < Len(LimArgItems)
    /\ \E j \in 1..Len(LimReturned.filteredItems) :
          /\ Len(LimReturned.filteredItems[j].media) = 1
          /\ MediaOriginOf(LimReturned.filteredItems[j].media[1]) = 2

\* a direct call of the function named fn has returned
Called(fn) == call # Null /\ returned # Null /\ Val(call).fn = fn

\* the positions of a page at which an identity occurs for the first time
FirstOccurrences(kept) ==
    {j \in 1..Len(kept) :
        \A i \in 1..(j - 1) : deriveStableId(kept[i]) # deriveStableId(kept[j])}

\* acc lists the notes of kept at the positions of first, in their order
ListsInOrder(acc, kept, first) ==
    /\ Len(acc) = Cardinality(first)
    /\ \A j \in first : acc[Cardinality({i \in first : i <= j})] = kept[j]

\* C23: the accumulated list never holds two notes of one derived identity,
\* holds the notes in the order of their first occurrence, and merging the
\* same page a second time leaves it as it was.
C23_DedupIdempotentOrdered ==
    /\ [](Called("dedup")
           => /\ \A i \in 1..Len(Val(returned).deduped),
                    j \in 1..Len(Val(returned).deduped) :
                    i # j => deriveStableId(Val(returned).deduped[i])
                               # deriveStableId(Val(returned).deduped[j])
              /\ ListsInOrder(Val(returned).deduped, Val(call).kept,
                              FirstOccurrences(Val(call).kept)))
    /\ [][Called("dedup") => Val(returned').deduped = Val(returned).deduped]_vars

\* C23 witness: a page of three notes with a repeated identity, merged twice
C23_Witness ==
    /\ Called("dedup")
    /\ Val(call).fed = 2
    /\ Len(Val(call).kept) = 3
    /\ Len(Val(returned).deduped) = 2
    /\ deriveStableId(Val(call).kept[1]) = deriveStableId(Val(call).kept[3])

\* a note without any id-like field
IdLess(item) == \A i \in 1..Len(idKeys) : ~Has(item, idKeys[i])

\* C24: a note's identity is its highest-priority id-like field; two notes
\* without id-like fields have the same identity exactly when timestamp,
\* payload and media agree, so two such notes that share a timestamp and
\* differ in payload are both accumulated.
C24_IdentityIsIdOrFingerprint ==
    Called("dedup")
    => \A i \in 1..Len(Val(call).kept), j \in 1..Len(Val(call).kept) :
          /\ Has(Val(call).kept[i], "id")
             => deriveStableId(Val(call).kept[i]) = Val(call).kept[i].id
          /\ (~Has(Val(call).kept[i], "id") /\ Has(Val(call).kept[i], "note_id"))
             => deriveStableId(Val(call).kept[i]) = Val(call).kept[i].note_id
          /\ (IdLess(Val(call).kept[i]) /\ IdLess(Val(call).kept[j]))
             => /\ (deriveStableId(Val(call).kept[i]) = deriveStableId(Val(call).kept[j]))
                     <=> (Val(call).kept[i] = Val(call).kept[j])
                /\ \E k \in 1..Len(Val(returned).deduped) :
                      Val(returned).deduped[k] = Val(call).kept[j]

\* C25: an absolute-basis value 'YYYY-MM-DD HH:MM:SS.mmm' without a zone marker
\* parses to the instant that the same value with a UTC marker appended
\* parses to.
C25_NaiveAbsoluteIsUtc ==
    (Called("parseTimestamp") /\ Val(call).treatAsUTC /\ Val(call).raw.fmt = "naive")
    => /\ Val(returned) # Null
       /\ DateOf(Val(returned)) = DateOf(parseTimestamp(Zulu(Val(call).raw.wall), TRUE))

\* C26: for a note with a parseable absolute-basis field and a parseable
\* civil-local field, extractTimestamp returns the instant of the
\* absolute-basis one; the media children are consulted only when no direct
\* field parses.
C26_AbsoluteFieldWins ==
    Called("extractTimestamp")
    => /\ (/\ Has(Val(call).item, "create_at_utc")
           /\ Has(Val(call).item, "create_at")
           /\ Val(call).item.create_at_utc \in GoodValues
           /\ Val(call).item.create_at \in GoodValues)
          => DateOf(Val(returned))
               = DateOf(parseTimestamp(Val(call).item.create_at_utc, TRUE))
       /\ (\E key \in {"create_at", "create_at_utc"} :
              Has(Val(call).item, key) /\ Val(call).item[key] \in GoodValues)
          => /\ Val(returned) # Null
             /\ \E key \in {"create_at", "create_at_utc"} :
                   /\ Has(Val(call).item, key)
                   /\ Val(Val(returned)).raw = Val(call).item[key]

\* the instant of a field of an object when the field is present and parses
FieldInstant(object, key, treatAsUTC) ==
    IF Has(object, key) THEN DateOf(parseTimestamp(object[key], treatAsUTC)) ELSE Null

\* the instant of the asset's own fields: the basis-classified ones, then the
\* generic one
OwnInstant(media) ==
    FirstSome(<<FieldInstant(media, "createAtUtc", TRUE),
                FieldInstant(media, "created_at", FALSE),
                FieldInstant(media, "timestamp", FALSE)>>)

\* the instants the timestamp fields of the parent note resolve to
ParentInstants(parent) ==
    {FieldInstant(parent, "create_at", FALSE),
     FieldInstant(parent, "createAtUtc", TRUE)} \ {Null}

\* C27: the limiter resolves an asset's instant from the asset's own
\* basis-classified field, else from the asset's generic timestamp field,
\* before any timestamp of the parent note; without an own instant it is an
\* instant of the parent note, and it is absent only when nothing resolves.
C27_OwnFieldsBeforeParent ==
    Called("resolveAssetTimestamp")
    => IF OwnInstant(Val(call).media) # Null
       THEN Val(returned) = OwnInstant(Val(call).media)
       ELSE IF ParentInstants(Val(call).parent) # {}
       THEN Val(returned) \in ParentInstants(Val(call).parent)
       ELSE Val(returned) = Null

\* the object has a field, and none of its fields holds a value that parses
Unusable(object) ==
    /\ DOMAIN object # {}
    /\ \A key \in DOMAIN object : object[key] \in {Junk, Blank, Empty}

\* C28: an asset whose own timestamp value is malformed, empty or
\* whitespace-only, under a parent note with a valid timestamp, resolves to the
\* parent note's instant and not to an absent one.
C28_UnusableOwnFallsBackToParent ==
    (/\ Called("resolveAssetTimestamp")
     /\ Unusable(Val(call).media)
     /\ ParentInstants(Val(call).parent) # {})
    => /\ Val(returned) # Null
       /\ Val(returned) = DateOf(extractTimestamp(Val(call).parent))

\* the instants the notes of a list resolve to
ResolvedInstants(items) ==
    {DateOf(extractTimestamp(items[i])) : i \in 1..Len(items)} \ {Null}

\* latest is the greatest instant of a set, absent exactly when the set is empty
IsMaximumOf(latest, instants) ==
    IF instants = {} THEN latest = Null
    ELSE /\ latest \in instants
         /\ \A d \in instants : Val(d) <= Val(latest)

\* C29: findLatestTimestamp returns the maximum of the notes' resolved
\* instants, and null exactly when no note of the list resolves.
C29_LatestIsMaximum ==
    Called("findLatestTimestamp")
    => IsMaximumOf(Val(returned), ResolvedInstants(Val(call).items))

\* C29 witness: three notes, the latest one first, one that does not resolve
C29_Witness ==
    /\ Called("findLatestTimestamp")
    /\ Len(Val(call).items) = 3
    /\ Val(returned) # Null
    /\ Val(returned) = DateOf(extractTimestamp(Val(call).items[1]))
    /\ DateOf(extractTimestamp(Val(call).items[2])) = Null
    /\ DateOf(extractTimestamp(Val(call).items[3])) # Null
    /\ DateOf(extractTimestamp(Val(call).items[3])) # Val(returned)

\* C30: a run reads the persisted state once, when it starts, and writes it at
\* most once, after the last enrollment and only if the watermark of some
\* enrollment was advanced in the run; otherwise the persisted state stays
\* as it is.
C30_StateWrittenOnceAtEnd ==
    /\ [](pc \notin {"idle", "done", "crashed"}
           => (stateUpdated <=> \E e \in EnrollmentIds : advanced[e] # Null))
    /\ [][/\ pc \in {"idle", "done", "crashed"} => syncState' = stateFile
          /\ (stateFile' # stateFile \/ lastWritten' # lastWritten)
             => /\ pc = "enrollment" /\ cur > Len(Enrollments) /\ pc' = "done"
                /\ stateUpdated
                /\ \E e \in EnrollmentIds : advanced[e] # Null
                /\ stateFile' = syncState
          /\ (pc = "enrollment" /\ cur > Len(Enrollments) /\ stateUpdated)
             => stateFile' = syncState]_vars

\* C30 witness: a finished run that advanced one enrollment only and wrote the
\* state file, the other enrollment's entry being as the run read it
C30_Witness ==
    /\ pc = "done"
    /\ stateUpdated
    /\ advanced[Enrollments[1]] # Null
    /\ advanced[Enrollments[2]] = Null
    /\ stateFile = syncState
    /\ stateFile[Enrollments[1]] = Some(toISOString(Val(advanced[Enrollments[1]])))

\* C31: the rewrite of the state file is atomic: at every point, a failure
\* during the write included, the file holds the complete previous mapping or
\* the complete new one, so a later run loads every watermark that was
\* persisted before.
C31_RewriteIsAtomic ==
    /\ pc \in {"save", "done", "crashed"}
           => (InstantsOf(stateFile) = lastWritten \/ stateFile = syncState)
    /\ pc = "loaded"
           => \A e \in EnrollmentIds : lastWritten[e] # Null => syncState[e] # Null

\* C32: while the assets of an enrollment are downloaded and stamped, the
\* number of assets in work at once never exceeds the configured concurrency.
C32_PoolIsBounded ==
    Cardinality(Active) <= DownloadConcurrency

\* the pool is full while another asset waits for a slot
C32_Witness ==
    /\ pc = "download"
    /\ Cardinality(Active) = DownloadConcurrency
    /\ Queued # {}

\* C33: when the formatted oldest instant of the page equals the cursor just
\* used, the next request carries the instant one millisecond earlier; two
\* consecutive page requests of a run never carry the same cursor.
C33_CursorAlwaysMoves ==
    [][NextPageStep =>
         /\ beforeCursor' # beforeCursor
         /\ CursorOf(OldestOf(PendingPage), 0) = beforeCursor
               => beforeCursor' = CursorOf(OldestOf(PendingPage), 1)]_vars

\* the vendor answered with the same page again and the request that follows
\* carries the cursor one millisecond earlier
C33_Witness ==
    /\ feedMode = "stuck"
    /\ pc = "request"
    /\ pages = 2
    /\ beforeCursor = CursorOf(OldestOf(PendingPage), 1)

\* the instants of the notes of a list that have a usable timestamp
InstantsIn(items) ==
    {Val(extractTimestamp(items[i])).date :
        i \in {j \in 1..Len(items) : extractTimestamp(items[j]) # Null}}

\* the range given to a direct call contains the instant d
WithinCalledRange(d) ==
    /\ Val(call).startDate # Null => Val(Val(call).startDate) <= d
    /\ Val(call).endDate # Null => d < Val(Val(call).endDate) + 24 * HourMs

\* the oldest instant of the page, less one millisecond, is not after the start
PageReachesStart(items, start) ==
    /\ start # Null
    /\ \E d \in InstantsIn(items) :
          /\ \A other \in InstantsIn(items) : d <= other
          /\ d - 1 <= Val(start)

\* the fetch loop leaves with the page whose oldest note reaches the start
FetchStopsAtStart ==
    [][(/\ pc = "request"
        /\ lastResponse' # Null
        /\ Val(lastResponse').status = 200
        /\ Val(lastResponse').tryNum = tryNum
        /\ PageReachesStart(PendingPage, startDate))
       => pc' = "fetched"]_vars

\* C34: every note filterByRangeAndFindNext keeps that has a usable timestamp
\* lies at or after the start, when one is given, and before the day after the
\* end, when one is given; no next cursor is handed on (the pagination stops)
\* when the oldest instant of the page less one millisecond is not after the
\* start.
C34_KeptWithinRange ==
    Called("filterByRangeAndFindNext") =>
        /\ \A d \in InstantsIn(Val(returned).kept) : WithinCalledRange(d)
        /\ PageReachesStart(Val(call).items, Val(call).startDate)
              => Val(returned).nextCursor = Null

\* of two dated notes one is kept and one is dropped by a range with both
\* ends given, and the page ends the pagination
C34_Witness ==
    /\ Called("filterByRangeAndFindNext")
    /\ Val(call).startDate # Null
    /\ Val(call).endDate # Null
    /\ Cardinality(InstantsIn(Val(call).items)) = 2
    /\ Cardinality(InstantsIn(Val(returned).kept)) = 1
    /\ Val(returned).nextCursor = Null

\* the route the extension of the file alone selects
RouteOfExtension(extension) ==
    IF extension \in {"mp4", "mov", "m4v", "MP4"} THEN "stampVideo"
    ELSE IF extension \in {"png", "webp", "PNG"} THEN "stampPngOrWebp"
    ELSE IF extension \in {"jpg", "jpeg", "heic", "JPG"} THEN "stampStillImage"
    ELSE "stampGeneric"

\* C35: an asset with a usable timestamp is stamped by exactly one of the four
\* routes, selected by its media classification: a video by the video route,
\* an image by one of the two image routes; the extension of the file selects
\* the route only when the classification is unknown.
C35_RouteFollowsClassification ==
    (Called("applyMetadata") /\ Val(call).timestamp # Null) =>
        /\ Val(returned) \in {"stampVideo", "stampPngOrWebp", "stampStillImage",
                              "stampGeneric"}
        /\ Val(call).mediaType = "video" => Val(returned) = "stampVideo"
        /\ Val(call).mediaType = "image"
              => Val(returned) \in {"stampPngOrWebp", "stampStillImage"}
        /\ Val(call).mediaType = "unknown"
              => Val(returned) = RouteOfExtension(Val(call).extension)

\* the instants of the media entries whose download or stamping failed in the
\* download stage that ended last
FailedInstants ==
    {Val(ParseResolved(Some([value |-> collectMediaEntries(processedItems)[i].rawTimestamp,
                             hint |-> collectMediaEntries(processedItems)[i].hint]))) :
        i \in {j \in 1..Len(tasks) :
                 /\ tasks[j] = "failed"
                 /\ ParseResolved(Some([value |-> collectMediaEntries(processedItems)[j].rawTimestamp,
                                        hint |-> collectMediaEntries(processedItems)[j].hint])) # Null}}

\* C36: the watermark a run persists for an enrollment is earlier than the
\* instant of every asset of that enrollment whose download or stamping failed
\* in the run, so that a later run fetches the asset again.
C36_WatermarkBelowFailedAssets ==
    [][(pc = "enrollment" /\ pc' = "done" /\ tasks # <<>>)
       => \A t \in FailedInstants :
             \/ stateFile'[Enrollments[cur - 1]] = Null
             \/ Val(parseISO(Val(stateFile'[Enrollments[cur - 1]]))) < t]_vars

\* C37: when the run has ended, by a fatal failure of a later enrollment too,
\* the state file holds the watermark of every enrollment whose sync completed
\* and advanced it.
C37_AdvancedWatermarkIsPersisted ==
    pc \in {"done", "crashed"}
    => \A e \in downloadDone :
          advanced[e] # Null => stateFile[e] = Some(toISOString(Val(advanced[e])))

\* the task of entry i is writing its .partial file, or has renamed it
HoldsFile(i) == workers[i].at \in {"write", "stamp", "stamped"}

\* C38: under every interleaving of the tasks of the download pool, two
\* different assets of a run are never written to the same destination path,
\* nor to the same .partial path.
C38_DestinationsAreDistinct ==
    \A i, j \in 1..Len(workers) :
        (/\ collectMediaEntries(processedItems)[i].url
                # collectMediaEntries(processedItems)[j].url
         /\ HoldsFile(i)
         /\ HoldsFile(j))
        => workers[i].filename # workers[j].filename

\* C39: in one call of fetchNotesRange against a vendor that answers with
\* notes strictly before the cursor, whose timestamps are on one basis, the
\* cursor of each page request is strictly earlier than the cursor of the
\* request before it, and the page it is answered with shares no note with
\* the page before.
C39_CursorsDecrease ==
    [][NextPageStep =>
         /\ beforeCursor' < beforeCursor
         /\ NoteIds(PendingPage') \cap NoteIds(PendingPage) = {}]_vars

\* two pages with notes were merged and a third request is pending
C39_Witness ==
    /\ feedMode = "honest"
    /\ pc = "request"
    /\ pages = 2
    /\ Len(deduped) > DEFAULT_COUNT

\* the selected assets whose instant is strictly earlier than the cutoff
SelectedBeforeCutoff ==
    {r \in LimRecordSet :
        /\ IsSelected(r)
        /\ r.timestamp # Null
        /\ LimReturned.cutoffTimestamp # Null
        /\ Val(r.timestamp) < Val(LimReturned.cutoffTimestamp)}

\* the selected assets whose instant is the cutoff
CutoffTieGroup ==
    {r \in LimRecordSet : IsSelected(r) /\ r.timestamp = LimReturned.cutoffTimestamp}

\* C40: when applySoftAssetLimit truncates with cap C, fewer than C of the
\* selected assets have an instant strictly earlier than the cutoff: the number
\* selected exceeds C by at most the size of the cutoff's tie group less one.
C40_OnlyTiesExceedCap ==
    (LimCalled /\ LimReturned.limited)
    => /\ Cardinality(SelectedBeforeCutoff) < LimArgCap
       /\ LimReturned.selectedAssets - LimArgCap <= Cardinality(CutoffTieGroup) - 1

\* a truncated call with cap 2 that selected three assets, which share the
\* cutoff instant
C40_Witness ==
    /\ LimCalled
    /\ LimReturned.limited
    /\ LimArgCap = 2
    /\ LimReturned.selectedAssets = 3
    /\ Cardinality(CutoffTieGroup) = 3

====
